---- MODULE Spec2Model ----
(***************************************************************************)
(* State-machine model of the ShadowID governance contracts.               *)
(*                                                                         *)
(*   DAO       backend/contracts-stylus/src/dao.rs                         *)
(*   DVoteDAO  backend/contracts-stylus/examples/src/verify_noir_proof.rs  *)
(*   Treasury  backend/contracts-stylus/src/treasury.rs                    *)
(*   GovernanceToken  backend/contracts-stylus/src/governance_token.rs     *)
(*   ZkEnhancedDAO    backend/contracts-stylus/src/zk_enhanced_dao.rs      *)
(*                                                                         *)
(* Each state-changing entry point modelled is one action; the views, the  *)
(* DAO's update_shadow_id_registry and the Treasury's                      *)
(* emergency_withdraw_token and fallback are left out.  Of the             *)
(* GovernanceToken, init, mint, burn, transfer, delegate and               *)
(* set_auto_delegation are modelled; its allowances, permits, role         *)
(* administration and pause are left out, and so are the event log and     *)
(* total_supply_checkpoints, which only get_past_total_supply reads.       *)
(* Of the ZkEnhancedDAO, submit_membership_proof and create_zk_proposal    *)
(* are modelled, over the storage of the DAO it embeds.                    *)
(* An entry point that returns Err reverts its call frame, so a failing    *)
(* call persists none of the writes it made before the failing check       *)
(* (EntrypointErr); the model keeps those intermediate writes visible in   *)
(* the action that makes them.  The Err of a call is given by the entry    *)
(* point's X_error operator; the latest call that returned Ok, with the    *)
(* value it returned, is kept in result.                                   *)
(***************************************************************************)
EXTENDS Integers, Sequences, FiniteSets, TLC

\* ------------------------------------------------------------------ bounds
\* block::timestamp() ranges over 1..MaxTime
MaxTime == 2
\* create_proposal is explored while proposal_count <= MaxProposals
MaxProposals == 2
\* the voting_period argument the constructor was given (it stores any
\* value): a proposal's end_time is the timestamp of its creation
VotingPeriod == 0
\* the execution_delay argument the constructor was given
ExecutionDelay == 1

\* --------------------------------------------------------------- addresses
ZeroAddr == "0x0"
Owner == "owner"
Alice == "alice"
Registry == "registry"
Treasury == "treasury"
Elsewhere == "elsewhere"
Bob == "bob"

\* the addresses of DVoteDAO.verified_members that are tracked
Addresses == {Alice, Bob}
\* the account whose DAO member record and votes are tracked
Users == {Alice}
\* msg::sender() of the entry points that check the caller's role
Callers == {Owner, Alice, Registry}
\* verifier arguments offered to add_verifier
Verifiers == {Registry}
\* execution targets offered to create_proposal
Targets == {Treasury, Elsewhere}
\* [u8; 32] values: Zero32 is the all-zero array
Zero32 == "00..00"
\* kyc_commitment arguments offered to the entry points
Commitments == {Zero32, "c1"}
\* proof_hash arguments offered to the entry points
Hashes == {Zero32, "h1"}
\* u8 vote choices offered to vote: 0 For, 1 Against, 2 Abstain, 3 invalid
Choices == {0, 1, 2, 3}
\* u8 verification types offered to register_verified_user
VerificationTypes == {2}
ProposalIds == 1 .. MaxProposals

\* tallies left on the last proposal by voters outside Users (see InitHistory)
PriorTallies == {<<80, 10, 20>>, <<40, 50, 5>>, <<99, 0, 0>>, <<50, 50, 0>>}

VARIABLES
    now,                \* block::timestamp()
    proposal_count,     \* DAO.proposal_count
    proposal_core,      \* DAO.proposal_core
    execution_data,     \* DAO.execution_data
    user_votes,         \* DAO.user_votes
    members,            \* DAO.members
    validated_proofs,   \* DAO.validated_proofs
    shadow_id_registry, \* DAO.shadow_id_registry
    kyc_verifiers,      \* DAO.kyc_verifiers: the addresses mapped to true
    locked,             \* DAO.reentrancy_guard.locked
    result,             \* the latest call that returned Ok, and the value it returned
    uses,               \* per proof hash: successful gated calls that presented it (0, 1, 2 = more than one)
    creates,            \* number of successful create_proposal calls so far
    dvote_owner,          \* DVoteDAO.owner
    verified_members,     \* DVoteDAO.verified_members
    proof_registry,       \* DVoteDAO.proof_registry: the proof hashes mapped to true
    verification_policy,  \* DVoteDAO.verification_policy
    treasury_balance,     \* DVoteDAO.treasury_balance
    treasury,             \* the Treasury's storage: owner, paused, reentrancy_guard (locked),
                          \* withdrawal_delay, withdrawal_count, queued_withdrawals
    eth_held,             \* the ETH held at the Treasury's address
    call_stack,           \* the Treasury calls waiting for an external token call to return
    t_result,             \* the latest Treasury call that returned, with its Err or Ok value
    governance_token,     \* the GovernanceToken's storage: total_supply, balances, roles,
                          \* delegates_mapping, checkpoints, last_mint_time,
                          \* auto_delegation_enabled, paused
    zk_dao,               \* ZkEnhancedDAO.member_zk_proofs and .proposal_zk_requirements
    zk_result             \* the latest ZkEnhancedDAO call that returned, with its Err or Ok value

daoVars == <<now, proposal_count, proposal_core, execution_data, user_votes,
             members, validated_proofs, shadow_id_registry, kyc_verifiers,
             locked, uses, creates>>

dvoteVars == <<dvote_owner, verified_members, proof_registry,
               verification_policy, treasury_balance>>

treasuryVars == <<treasury, eth_held, call_stack, t_result>>

governanceVars == <<governance_token>>

zkVars == <<zk_dao, zk_result>>

vars == <<daoVars, dvoteVars, result, treasuryVars, governanceVars, zkVars>>

\* ------------------------------------------------------------ data structures
\* impl Default for ProposalState
DefaultProposalState == "Active"

\* ProposalCore::default(): what proposal_core returns for a key never written
DefaultProposalCore ==
    [id |-> 0, proposer |-> ZeroAddr, title |-> "", description |-> "",
     start_time |-> 0, end_time |-> 0,
     for_votes |-> 0, against_votes |-> 0, abstain_votes |-> 0,
     state |-> DefaultProposalState, cancelled |-> FALSE,
     kyc_commitment |-> Zero32, proof_hash |-> Zero32]

\* ExecutionData::default()
DefaultExecutionData ==
    [target |-> ZeroAddr, value |-> 0, data |-> <<>>, executed |-> FALSE,
     timelock_end |-> 0]

\* MemberData::default()
DefaultMemberData ==
    [is_member |-> FALSE, verified |-> FALSE, kyc_commitment |-> Zero32,
     proof_hash |-> Zero32, verification_timestamp |-> 0, verification_type |-> 0]

\* VoteRecord::default()
DefaultVoteRecord ==
    [has_voted |-> FALSE, choice |-> 0, weight |-> 0, proof_hash |-> Zero32,
     timestamp |-> 0]

\* commitment.iter().all(|&b| b == 0)
IsZero(b) == b = Zero32

\* the Ok outcome of a call
NoError == ""

Outcome(op, err, ret) == [op |-> op, err |-> err, ret |-> ret]

\* an entry point whose Err keeps what the call had written
EntrypointErr_keeps_writes(before, written) == written

\* A Stylus entry point returning Err reverts: storage keeps the value it had
\* before the call, not the value written before the failing check.
EntrypointErr(before, written) == before

\* an address outside Users, and a non-zero [u8; 32] value outside Commitments
\* and Hashes, standing for the accounts whose earlier calls produced InitHistory
Crowd == "crowd"
CrowdBytes == "crowd-bytes"

\* ------------------------------------------------------------------ helpers
\* is_user_verified_in_shadowid not reading the stored proof hash
is_user_verified_no_proof_hash(user) ==
    /\ members[user].verified
    /\ ~IsZero(members[user].kyc_commitment)

\* is_user_verified_in_shadowid reading only the verified flag
is_user_verified_flag_only(user) == members[user].verified

\* DAO::is_user_verified_in_shadowid
is_user_verified_in_shadowid(user) ==
    /\ members[user].verified
    /\ ~IsZero(members[user].kyc_commitment)
    /\ ~IsZero(members[user].proof_hash)

\* DAO::is_user_verified: the public view
is_user_verified(user) == is_user_verified_in_shadowid(user)

\* validate_zk_proof testing the commitment alone
validate_zk_proof_ok_commitment_only(commitment, proof_hash) == ~IsZero(commitment)

\* DAO::validate_zk_proof: the value it returns
validate_zk_proof_ok(commitment, proof_hash) ==
    ~(IsZero(commitment) \/ IsZero(proof_hash))

\* validate_zk_proof that also marks the member verified
validate_zk_proof_marks_verified(user, commitment, proof_hash) ==
    IF ~validate_zk_proof_ok(commitment, proof_hash)
    THEN [ok |-> FALSE, members |-> members, validated_proofs |-> validated_proofs]
    ELSE [ok |-> TRUE,
          members |-> [members EXCEPT ![user] =
                          [@ EXCEPT !.kyc_commitment = commitment,
                                    !.proof_hash = proof_hash,
                                    !.verification_timestamp = now,
                                    !.verified = TRUE]],
          validated_proofs |-> [validated_proofs EXCEPT ![user] = commitment]]

\* DAO::validate_zk_proof: the value returned and the storage as it leaves it
validate_zk_proof(user, commitment, proof_hash) ==
    IF ~validate_zk_proof_ok(commitment, proof_hash)
    THEN [ok |-> FALSE, members |-> members, validated_proofs |-> validated_proofs]
    ELSE [ok |-> TRUE,
          members |-> [members EXCEPT ![user] =
                          [@ EXCEPT !.kyc_commitment = commitment,
                                    !.proof_hash = proof_hash,
                                    !.verification_timestamp = now]],
          validated_proofs |-> [validated_proofs EXCEPT ![user] = commitment]]

\* quorum_required in DAO::finalize_proposal
quorum_required == 100

\* finalize_proposal with a quorum that the total must exceed
finalize_outcome_above_quorum(core) ==
    IF core.for_votes + core.against_votes + core.abstain_votes > quorum_required
       /\ core.for_votes > core.against_votes
    THEN "Passed"
    ELSE "Rejected"

\* the outcome finalize_proposal computes from the stored tallies
finalize_outcome(core) ==
    IF core.for_votes + core.against_votes + core.abstain_votes >= quorum_required
       /\ core.for_votes > core.against_votes
    THEN "Passed"
    ELSE "Rejected"

\* allowed_targets: the constructor allows the treasury; no entry point adds to it
allowed_targets(target) == target = Treasury

\* a guard that hands out the lock whether or not it is held
ReentrancyGuard_guard_reentrant(l) == [err |-> NoError, locked |-> TRUE]

\* ReentrancyGuard::guard: Err when the lock is held, else the lock taken
ReentrancyGuard_guard(l) ==
    IF l THEN [err |-> "ReentrancyGuard: reentrant call", locked |-> l]
    ELSE [err |-> NoError, locked |-> TRUE]

\* a lock guard whose end of scope leaves the lock as it is
ReentrancyGuardLock_forget(l) == l

\* impl Drop for ReentrancyGuardLock: the end of the guarded scope
ReentrancyGuardLock_drop(l) == FALSE

\* a successful gated call presenting proof hash h
RecordUse(h) == [uses EXCEPT ![h] = IF @ < 2 THEN @ + 1 ELSE 2]

\* A call that returns Err after validate_zk_proof left members m and
\* validated_proofs vp behind (m = members, vp = validated_proofs when the call
\* failed before it wrote anything).
Reverted(m, vp) ==
    /\ members' = EntrypointErr(members, m)
    /\ validated_proofs' = EntrypointErr(validated_proofs, vp)
    /\ UNCHANGED <<now, proposal_count, proposal_core, execution_data,
                   user_votes, shadow_id_registry, kyc_verifiers, locked, result, uses, creates>>

\* A guarded call that returns Err after taking the lock: the lock guard goes
\* out of scope at the return, whatever validate_zk_proof wrote is reverted.
RevertedGuarded(m, vp) ==
    /\ members' = EntrypointErr(members, m)
    /\ validated_proofs' = EntrypointErr(validated_proofs, vp)
    /\ locked' = ReentrancyGuardLock_drop(ReentrancyGuard_guard(locked).locked)
    /\ UNCHANGED <<now, proposal_count, proposal_core, execution_data,
                   user_votes, shadow_id_registry, kyc_verifiers, result, uses, creates>>

\* A call that returns Err before writing anything.
Failed == Reverted(members, validated_proofs)

\* --------------------------------------------------------------- DVoteDAO
\* storage before initialize: every slot zero
InitDVote ==
    /\ dvote_owner = ZeroAddr
    /\ verified_members = [a \in Addresses |-> FALSE]
    /\ proof_registry = {}
    /\ verification_policy = 0
    /\ treasury_balance = 0

\* ---------------------------------------------------------------- Treasury
\* most ETH the treasury holds, most withdrawals queued, most calls in flight
MaxEth == 2
MaxWithdrawals == 2
MaxDepth == 2

ONE_HOUR == 3600
ONE_DAY == 86400
MIN_WITHDRAWAL_DELAY == ONE_HOUR
MAX_WITHDRAWAL_DELAY == 30 * ONE_DAY

\* the address of an ERC20 token contract
Token == "token"
TreasuryCallers == {Owner, Alice}
InitialOwners == {ZeroAddr, Owner, Token}
Recipients == {ZeroAddr, Alice}
Tokens == {ZeroAddr, Token}
EthAmounts == 0 .. MaxEth
Delays == {0, MIN_WITHDRAWAL_DELAY - 1, MIN_WITHDRAWAL_DELAY, MAX_WITHDRAWAL_DELAY,
           MAX_WITHDRAWAL_DELAY + 1}
WithdrawalIds == 1 .. MaxWithdrawals

\* QueuedWithdrawal::default(): what queued_withdrawals returns for a key never written
DefaultQueuedWithdrawal ==
    [recipient |-> ZeroAddr, amount |-> 0, unlock_time |-> 0,
     executed |-> FALSE, cancelled |-> FALSE]

\* ---------------------------------------------------- GovernanceToken data
\* block::timestamp() of the token's calls ranges over TokenTimes: the first
\* MaxTokenTime seconds, and the second a MINT_COOLDOWN after the first
MaxTokenTime == 2
\* mint and init succeed while the balances add up to MaxTokens at most
MaxTokens == 2

\* MAX_SUPPLY is 1,000,000 * 10^18; amounts are counted here in units of
\* 500,000 * 10^18, half the cap
MAX_SUPPLY == 2
MINT_COOLDOWN == 86400

TokenTimes == (1 .. MaxTokenTime) \cup {MINT_COOLDOWN + 1}
TokenAccounts == {Owner, Alice}
TokenAddresses == {ZeroAddr} \cup TokenAccounts
Admins == {ZeroAddr, Owner}
TokenAmounts == 0 .. 1
Roles == {"DEFAULT_ADMIN_ROLE", "ADMIN_ROLE", "MINTER_ROLE"}

\* the GovernanceToken as deployed, before init: every storage slot zero
InitGovernanceToken ==
    /\ governance_token =
          [total_supply |-> 0,
           balances |-> [a \in TokenAccounts |-> 0],
           roles |-> [r \in Roles |-> [a \in TokenAccounts |-> FALSE]],
           delegates_mapping |-> [a \in TokenAccounts |-> ZeroAddr],
           checkpoints |-> [a \in TokenAccounts |-> <<>>],
           last_mint_time |-> 0,
           auto_delegation_enabled |-> FALSE,
           paused |-> FALSE]

\* ------------------------------------------------------ ZkEnhancedDAO data
\* the circuit types verify_dvote_circuit supports
SupportedCircuitTypes == {"age_proof", "citizenship_proof", "attribute_proof"}
\* proof types offered to the calls: a supported one and one that is not
CircuitTypes == {"age_proof", "other_proof"}
\* proofs offered to submit_membership_proof: the circuit_name in the JSON and
\* the verdict of the Noir verifier on it
MembershipProofs == [circuit_name : CircuitTypes, valid : BOOLEAN]

\* the return of a ZkEnhancedDAO call: err, or the bool or the U256 of its Ok
ZkOutcome(op, err, ok, id) == [op |-> op, err |-> err, ok |-> ok, id |-> id]

\* the ZkEnhancedDAO as deployed: every storage slot zero
InitZkDAO ==
    /\ zk_dao = [member_zk_proofs |-> [u \in Users |-> [c \in CircuitTypes |-> FALSE]],
                 proposal_zk_requirements |-> [i \in ProposalIds |-> ""]]
    /\ zk_result = ZkOutcome("deploy", NoError, FALSE, 0)

\* the Treasury as deployed, before init: every storage slot zero
InitTreasury ==
    /\ treasury = [owner |-> ZeroAddr, paused |-> FALSE, locked |-> FALSE,
                   withdrawal_delay |-> 0, withdrawal_count |-> 0,
                   queued_withdrawals |-> [i \in WithdrawalIds |-> DefaultQueuedWithdrawal]]
    /\ eth_held = 0
    /\ call_stack = <<>>
    /\ t_result = Outcome("deploy", NoError, 0)

\* ------------------------------------------------------------------ Init
\* DAO::constructor
InitFresh ==
    /\ now = 1
    /\ proposal_count = 1
    /\ proposal_core = [i \in ProposalIds |-> DefaultProposalCore]
    /\ execution_data = [i \in ProposalIds |-> DefaultExecutionData]
    /\ user_votes = [k \in ProposalIds \X Users |-> DefaultVoteRecord]
    /\ members = [u \in Users |-> DefaultMemberData]
    /\ validated_proofs = [u \in Users |-> Zero32]
    /\ shadow_id_registry = Registry
    /\ kyc_verifiers = {}
    /\ locked = FALSE
    /\ result = Outcome("constructor", NoError, 0)
    /\ uses = [h \in Hashes |-> 0]
    /\ creates = 0
    /\ InitDVote
    /\ InitTreasury
    /\ InitGovernanceToken
    /\ InitZkDAO

\* A state the contract is in after the constructor and calls by accounts
\* outside Users, all in the block of timestamp 1: MaxProposals proposals were
\* created, the owner cancelled all but the last, and f + a + b accounts voted
\* on the last.  Every vote weighs 1 and quorum_required is 100, so only the
\* votes of accounts beyond Users bring a tally near the quorum.
HistoryCore(i, t) ==
    [id |-> i, proposer |-> Crowd, title |-> "t", description |-> "d",
     start_time |-> 1, end_time |-> 1 + VotingPeriod,
     for_votes |-> IF i = MaxProposals THEN t[1] ELSE 0,
     against_votes |-> IF i = MaxProposals THEN t[2] ELSE 0,
     abstain_votes |-> IF i = MaxProposals THEN t[3] ELSE 0,
     state |-> IF i = MaxProposals THEN "Active" ELSE "Cancelled",
     cancelled |-> FALSE,
     kyc_commitment |-> CrowdBytes, proof_hash |-> CrowdBytes]

InitHistory ==
    /\ now = 1
    /\ proposal_count = MaxProposals + 1
    /\ \E t \in PriorTallies :
          proposal_core = [i \in ProposalIds |-> HistoryCore(i, t)]
    /\ execution_data = [i \in ProposalIds |->
          [target |-> Treasury, value |-> 0, data |-> <<>>, executed |-> FALSE,
           timelock_end |-> 0]]
    /\ user_votes = [k \in ProposalIds \X Users |-> DefaultVoteRecord]
    /\ members = [u \in Users |-> DefaultMemberData]
    /\ validated_proofs = [u \in Users |-> Zero32]
    /\ shadow_id_registry = Registry
    /\ kyc_verifiers = {}
    /\ locked = FALSE
    /\ result = Outcome("vote", NoError, 0)
    /\ uses = [h \in Hashes |-> 0]
    /\ creates = MaxProposals
    /\ InitDVote
    /\ InitTreasury
    /\ InitGovernanceToken
    /\ InitZkDAO

Init == InitFresh \/ InitHistory

\* ------------------------------------------------------------------ DAO
\* Each entry point is an operator X_error giving the Err the call returns
\* (NoError when it returns Ok), in the order of the code's checks, and an
\* action X: the writes of the Ok path, or the revert.

\* create_proposal without the check of the target
create_proposal_error_any_target(proposer, target, kyc_commitment, proof_hash) ==
    IF locked THEN "ReentrancyGuard: reentrant call"
    ELSE IF ~(members[proposer].verified
              /\ ~IsZero(members[proposer].kyc_commitment)
              /\ ~IsZero(members[proposer].proof_hash)) THEN "KYC required"
    ELSE IF IsZero(kyc_commitment) \/ IsZero(proof_hash)
    THEN "Invalid ZK proof or commitment"
    ELSE NoError

\* DAO::create_proposal: its early returns
create_proposal_error(proposer, target, kyc_commitment, proof_hash) ==
    IF ReentrancyGuard_guard(locked).err # NoError
    THEN ReentrancyGuard_guard(locked).err
    ELSE IF ~is_user_verified_in_shadowid(proposer) THEN "KYC required"
    ELSE IF ~validate_zk_proof_ok(kyc_commitment, proof_hash)
    THEN "Invalid ZK proof or commitment"
    ELSE IF ~allowed_targets(target) THEN "Target contract not allowed"
    ELSE NoError

\* create_proposal storing the counter it read
same_proposal_count(proposal_id) == proposal_id

\* the counter create_proposal stores for the next proposal
next_proposal_count(proposal_id) == proposal_id + 1

\* DAO::create_proposal
create_proposal(proposer, title, description, target, value, data, kyc_commitment, proof_hash) ==
    LET v == validate_zk_proof(proposer, kyc_commitment, proof_hash)
        proposal_id == proposal_count
        core == [id |-> proposal_id, proposer |-> proposer, title |-> title,
                 description |-> description,
                 start_time |-> now, end_time |-> now + VotingPeriod,
                 for_votes |-> 0, against_votes |-> 0, abstain_votes |-> 0,
                 state |-> "Active", cancelled |-> FALSE,
                 kyc_commitment |-> kyc_commitment, proof_hash |-> proof_hash]
        execution == [target |-> target, value |-> value, data |-> data,
                      executed |-> FALSE, timelock_end |-> 0]
        err == create_proposal_error(proposer, target, kyc_commitment, proof_hash)
    IN  /\ proposal_count <= MaxProposals
        /\ IF err = "ReentrancyGuard: reentrant call"
           THEN Failed
           ELSE IF err = "KYC required"
           THEN RevertedGuarded(members, validated_proofs)
           ELSE IF err # NoError
           THEN RevertedGuarded(v.members, v.validated_proofs)
           ELSE /\ proposal_core' = [proposal_core EXCEPT ![proposal_id] = core]
                /\ execution_data' = [execution_data EXCEPT ![proposal_id] = execution]
                /\ proposal_count' = next_proposal_count(proposal_id)
                /\ members' = v.members
                /\ validated_proofs' = v.validated_proofs
                /\ locked' = ReentrancyGuardLock_drop(ReentrancyGuard_guard(locked).locked)
                /\ result' = Outcome("create_proposal", NoError, proposal_id)
                /\ uses' = RecordUse(proof_hash)
                /\ creates' = creates + 1
                /\ UNCHANGED <<now, user_votes, shadow_id_registry, kyc_verifiers>>

\* a vote counted in every tally
record_vote_every_tally(core, choice, weight) ==
    [core EXCEPT !.for_votes = @ + weight, !.against_votes = @ + weight,
                 !.abstain_votes = @ + weight]

\* a vote counted twice in its tally
record_vote_twice(core, choice, weight) ==
    CASE choice = 0 -> [core EXCEPT !.for_votes = @ + weight + weight]
      [] choice = 1 -> [core EXCEPT !.against_votes = @ + weight + weight]
      [] OTHER      -> [core EXCEPT !.abstain_votes = @ + weight + weight]

\* the tallies of core after a vote of the given weight for choice (0, 1 or 2)
record_vote(core, choice, weight) ==
    CASE choice = 0 -> [core EXCEPT !.for_votes = @ + weight]
      [] choice = 1 -> [core EXCEPT !.against_votes = @ + weight]
      [] OTHER      -> [core EXCEPT !.abstain_votes = @ + weight]

\* vote without the check of the stored VoteRecord
vote_error_no_already(voter, proposal_id, choice, kyc_commitment, proof_hash) ==
    IF ~is_user_verified_in_shadowid(voter) THEN "KYC required"
    ELSE IF ~validate_zk_proof_ok(kyc_commitment, proof_hash)
    THEN "Invalid ZK proof for vote"
    ELSE IF proposal_core[proposal_id].state # "Active" THEN "Proposal is not active"
    ELSE IF now > proposal_core[proposal_id].end_time THEN "Voting period has ended"
    ELSE IF choice \notin {0, 1, 2} THEN "Invalid vote choice (must be 0, 1, or 2)"
    ELSE NoError

\* vote without the check of the proposal's state
vote_error_any_state(voter, proposal_id, choice, kyc_commitment, proof_hash) ==
    IF ~is_user_verified_in_shadowid(voter) THEN "KYC required"
    ELSE IF ~validate_zk_proof_ok(kyc_commitment, proof_hash)
    THEN "Invalid ZK proof for vote"
    ELSE IF user_votes[<<proposal_id, voter>>].has_voted
    THEN "User already voted on this proposal"
    ELSE IF now > proposal_core[proposal_id].end_time THEN "Voting period has ended"
    ELSE IF choice \notin {0, 1, 2} THEN "Invalid vote choice (must be 0, 1, or 2)"
    ELSE NoError

\* DAO::vote: its early returns
vote_error(voter, proposal_id, choice, kyc_commitment, proof_hash) ==
    IF ~is_user_verified_in_shadowid(voter) THEN "KYC required"
    ELSE IF ~validate_zk_proof_ok(kyc_commitment, proof_hash)
    THEN "Invalid ZK proof for vote"
    ELSE IF user_votes[<<proposal_id, voter>>].has_voted
    THEN "User already voted on this proposal"
    ELSE IF proposal_core[proposal_id].state # "Active" THEN "Proposal is not active"
    ELSE IF now > proposal_core[proposal_id].end_time THEN "Voting period has ended"
    ELSE IF choice \notin {0, 1, 2} THEN "Invalid vote choice (must be 0, 1, or 2)"
    ELSE NoError

\* DAO::vote
vote(voter, proposal_id, choice, kyc_commitment, proof_hash) ==
    LET v == validate_zk_proof(voter, kyc_commitment, proof_hash)
        core == proposal_core[proposal_id]
        weight == 1
        vote_record == [has_voted |-> TRUE, choice |-> choice, weight |-> weight,
                        proof_hash |-> proof_hash, timestamp |-> now]
        err == vote_error(voter, proposal_id, choice, kyc_commitment, proof_hash)
    IN  IF err = "KYC required"
        THEN Failed
        ELSE IF err # NoError
        THEN Reverted(v.members, v.validated_proofs)
        ELSE /\ user_votes' = [user_votes EXCEPT ![<<proposal_id, voter>>] = vote_record]
             /\ proposal_core' = [proposal_core EXCEPT ![proposal_id] =
                                     record_vote(core, choice, weight)]
             /\ members' = v.members
             /\ validated_proofs' = v.validated_proofs
             /\ result' = Outcome("vote", NoError, 0)
             /\ uses' = RecordUse(proof_hash)
             /\ UNCHANGED <<now, proposal_count, execution_data,
                            shadow_id_registry, kyc_verifiers, locked, creates>>

\* finalize_proposal without the check of the proposal's state
finalize_proposal_error_any_state(proposal_id) ==
    IF now <= proposal_core[proposal_id].end_time THEN "Voting period not ended"
    ELSE NoError

\* DAO::finalize_proposal: its early returns
finalize_proposal_error(proposal_id) ==
    IF proposal_core[proposal_id].state # "Active" THEN "Proposal not active"
    ELSE IF now <= proposal_core[proposal_id].end_time THEN "Voting period not ended"
    ELSE NoError

\* DAO::finalize_proposal
finalize_proposal(proposal_id) ==
    LET core == proposal_core[proposal_id]
    IN  IF finalize_proposal_error(proposal_id) # NoError
        THEN Failed
        ELSE /\ proposal_core' = [proposal_core EXCEPT ![proposal_id] =
                                     [core EXCEPT !.state = finalize_outcome(core)]]
             /\ result' = Outcome("finalize_proposal", NoError, 0)
             /\ UNCHANGED <<now, proposal_count, execution_data, user_votes,
                            members, validated_proofs, shadow_id_registry, kyc_verifiers,
                            locked, uses, creates>>

\* execute_proposal without the check of the proposal's state
execute_proposal_error_any_state(executor, proposal_id, kyc_commitment, proof_hash) ==
    IF locked THEN "ReentrancyGuard: reentrant call"
    ELSE IF ~(members[executor].verified
              /\ ~IsZero(members[executor].kyc_commitment)
              /\ ~IsZero(members[executor].proof_hash)) THEN "KYC required"
    ELSE IF IsZero(kyc_commitment) \/ IsZero(proof_hash)
    THEN "Invalid ZK proof for execution"
    ELSE IF execution_data[proposal_id].executed THEN "Proposal already executed"
    ELSE IF now < execution_data[proposal_id].timelock_end
    THEN "Timelock period not expired"
    ELSE NoError

\* DAO::execute_proposal: its early returns
execute_proposal_error(executor, proposal_id, kyc_commitment, proof_hash) ==
    IF ReentrancyGuard_guard(locked).err # NoError
    THEN ReentrancyGuard_guard(locked).err
    ELSE IF ~is_user_verified_in_shadowid(executor) THEN "KYC required"
    ELSE IF ~validate_zk_proof_ok(kyc_commitment, proof_hash)
    THEN "Invalid ZK proof for execution"
    ELSE IF proposal_core[proposal_id].state # "Passed"
    THEN "Proposal not in passed state"
    ELSE IF execution_data[proposal_id].executed THEN "Proposal already executed"
    ELSE IF now < execution_data[proposal_id].timelock_end
    THEN "Timelock period not expired"
    ELSE NoError

\* DAO::execute_proposal
execute_proposal(executor, proposal_id, kyc_commitment, proof_hash) ==
    LET v == validate_zk_proof(executor, kyc_commitment, proof_hash)
        core == proposal_core[proposal_id]
        execution == execution_data[proposal_id]
        err == execute_proposal_error(executor, proposal_id, kyc_commitment, proof_hash)
    IN  IF err = "ReentrancyGuard: reentrant call"
        THEN Failed
        ELSE IF err = "KYC required"
        THEN RevertedGuarded(members, validated_proofs)
        ELSE IF err # NoError
        THEN RevertedGuarded(v.members, v.validated_proofs)
        ELSE /\ execution_data' = [execution_data EXCEPT ![proposal_id] =
                                      [execution EXCEPT !.executed = TRUE]]
             /\ proposal_core' = [proposal_core EXCEPT ![proposal_id] =
                                     [core EXCEPT !.state = "Executed"]]
             /\ members' = v.members
             /\ validated_proofs' = v.validated_proofs
             /\ locked' = ReentrancyGuardLock_drop(ReentrancyGuard_guard(locked).locked)
             /\ result' = Outcome("execute_proposal", NoError, 0)
             /\ uses' = RecordUse(proof_hash)
             /\ UNCHANGED <<now, proposal_count, user_votes,
                            shadow_id_registry, kyc_verifiers, creates>>

\* cancel_proposal without the check of the proposal's state
cancel_proposal_error_any_state(caller, proposal_id) ==
    IF caller # Owner THEN "Only owner can cancel"
    ELSE NoError

\* cancel_proposal without the check of the caller
cancel_proposal_error_any_caller(caller, proposal_id) ==
    IF proposal_core[proposal_id].state # "Active"
    THEN "Cannot cancel non-active proposal"
    ELSE NoError

\* DAO::cancel_proposal: its early returns
cancel_proposal_error(caller, proposal_id) ==
    IF caller # Owner THEN "Only owner can cancel"
    ELSE IF proposal_core[proposal_id].state # "Active"
    THEN "Cannot cancel non-active proposal"
    ELSE NoError

\* DAO::cancel_proposal
cancel_proposal(caller, proposal_id) ==
    LET core == proposal_core[proposal_id]
    IN  IF cancel_proposal_error(caller, proposal_id) # NoError
        THEN Failed
        ELSE /\ proposal_core' = [proposal_core EXCEPT ![proposal_id] =
                                     [core EXCEPT !.state = "Cancelled"]]
             /\ result' = Outcome("cancel_proposal", NoError, 0)
             /\ UNCHANGED <<now, proposal_count, execution_data, user_votes,
                            members, validated_proofs, shadow_id_registry, kyc_verifiers,
                            locked, uses, creates>>

\* DAO::submit_zk_proof: its early returns
submit_zk_proof_error(caller, kyc_commitment, proof_hash) ==
    IF caller # Owner THEN "Only authorized backend can submit proofs"
    ELSE IF IsZero(kyc_commitment) \/ IsZero(proof_hash)
    THEN "Invalid commitment or proof hash from ZK flow"
    ELSE NoError

\* DAO::submit_zk_proof
submit_zk_proof(caller, user, kyc_commitment, proof_hash) ==
    IF submit_zk_proof_error(caller, kyc_commitment, proof_hash) # NoError
    THEN Failed
    ELSE /\ members' = [members EXCEPT ![user] =
                [is_member |-> TRUE, verified |-> TRUE,
                 kyc_commitment |-> kyc_commitment, proof_hash |-> proof_hash,
                 verification_timestamp |-> now, verification_type |-> 1]]
         /\ validated_proofs' = [validated_proofs EXCEPT ![user] = kyc_commitment]
         /\ result' = Outcome("submit_zk_proof", NoError, 0)
         /\ UNCHANGED <<now, proposal_count, proposal_core, execution_data,
                        user_votes, shadow_id_registry, kyc_verifiers, locked, uses, creates>>

\* DAO::register_verified_user: its early return
register_verified_user_error(caller) ==
    IF caller # shadow_id_registry /\ caller # Owner
    THEN "Only ShadowIDRegistry or owner can register verified users"
    ELSE NoError

\* DAO::register_verified_user
register_verified_user(caller, user, kyc_commitment, proof_hash, verification_type) ==
    IF register_verified_user_error(caller) # NoError
    THEN Failed
    ELSE /\ members' = [members EXCEPT ![user] =
                [is_member |-> TRUE, verified |-> TRUE,
                 kyc_commitment |-> kyc_commitment, proof_hash |-> proof_hash,
                 verification_timestamp |-> now,
                 verification_type |-> verification_type]]
         /\ validated_proofs' = [validated_proofs EXCEPT ![user] = kyc_commitment]
         /\ result' = Outcome("register_verified_user", NoError, 0)
         /\ UNCHANGED <<now, proposal_count, proposal_core, execution_data,
                        user_votes, shadow_id_registry, kyc_verifiers, locked, uses, creates>>

\* DAO::add_member
add_member(caller, member) ==
    IF caller # Owner
    THEN Failed
    ELSE /\ members' = [members EXCEPT ![member].is_member = TRUE]
         /\ result' = Outcome("add_member", NoError, 0)
         /\ UNCHANGED <<now, proposal_count, proposal_core, execution_data,
                        user_votes, validated_proofs, shadow_id_registry,
                        kyc_verifiers, locked, uses, creates>>

\* DAO::submit_kyc_proof: the caller's record is read, kyc_hash and zk_proof_hash
\* are assigned, which are none of the six fields MemberData declares and which
\* nothing reads, and the record is stored back under the caller
submit_kyc_proof(member, kyc_hash, zk_proof_hash) ==
    /\ members' = [members EXCEPT ![member] = members[member]]
    /\ result' = Outcome("submit_kyc_proof", NoError, 0)
    /\ UNCHANGED <<now, proposal_count, proposal_core, execution_data,
                   user_votes, validated_proofs, shadow_id_registry,
                   kyc_verifiers, locked, uses, creates>>

\* verify_member that also fills in a commitment and a proof hash
verify_member_sets_proof(verifier, member) ==
    IF verifier \notin kyc_verifiers
    THEN Failed
    ELSE /\ members' = [members EXCEPT ![member] =
                            [@ EXCEPT !.verified = TRUE,
                                      !.kyc_commitment = CrowdBytes,
                                      !.proof_hash = CrowdBytes,
                                      !.verification_timestamp = now]]
         /\ result' = Outcome("verify_member", NoError, 0)
         /\ UNCHANGED <<now, proposal_count, proposal_core, execution_data,
                        user_votes, validated_proofs, shadow_id_registry,
                        kyc_verifiers, locked, uses, creates>>

\* DAO::verify_member
verify_member(verifier, member) ==
    IF verifier \notin kyc_verifiers
    THEN Failed
    ELSE /\ members' = [members EXCEPT ![member] =
                            [@ EXCEPT !.verified = TRUE,
                                      !.verification_timestamp = now]]
         /\ result' = Outcome("verify_member", NoError, 0)
         /\ UNCHANGED <<now, proposal_count, proposal_core, execution_data,
                        user_votes, validated_proofs, shadow_id_registry,
                        kyc_verifiers, locked, uses, creates>>

\* DAO::add_verifier
add_verifier(caller, verifier) ==
    IF caller # Owner
    THEN Failed
    ELSE /\ kyc_verifiers' = kyc_verifiers \cup {verifier}
         /\ result' = Outcome("add_verifier", NoError, 0)
         /\ UNCHANGED <<now, proposal_count, proposal_core, execution_data,
                        user_votes, members, validated_proofs,
                        shadow_id_registry, locked, uses, creates>>

\* a later block: block::timestamp() grows
Tick ==
    /\ now < MaxTime
    /\ call_stack = <<>>
    /\ now' = now + 1
    /\ result' = Outcome("tick", NoError, 0)
    /\ UNCHANGED <<proposal_count, proposal_core, execution_data, user_votes,
                   members, validated_proofs, shadow_id_registry, kyc_verifiers, locked,
                   uses, creates>>
    /\ UNCHANGED <<dvoteVars, treasuryVars, governanceVars, zkVars>>

CreateProposal ==
    /\ \E p \in Users, target \in Targets, c \in Commitments, h \in Hashes :
          create_proposal(p, "t", "d", target, 0, <<>>, c, h)
    /\ UNCHANGED <<dvoteVars, treasuryVars, governanceVars, zkVars>>

Vote ==
    /\ \E u \in Users, i \in ProposalIds, ch \in Choices, c \in Commitments,
          h \in Hashes :
          vote(u, i, ch, c, h)
    /\ UNCHANGED <<dvoteVars, treasuryVars, governanceVars, zkVars>>

FinalizeProposal ==
    /\ \E i \in ProposalIds : finalize_proposal(i)
    /\ UNCHANGED <<dvoteVars, treasuryVars, governanceVars, zkVars>>

ExecuteProposal ==
    /\ \E u \in Users, i \in ProposalIds, c \in Commitments, h \in Hashes :
          execute_proposal(u, i, c, h)
    /\ UNCHANGED <<dvoteVars, treasuryVars, governanceVars, zkVars>>

CancelProposal ==
    /\ \E caller \in Callers, i \in ProposalIds : cancel_proposal(caller, i)
    /\ UNCHANGED <<dvoteVars, treasuryVars, governanceVars, zkVars>>

SubmitZkProof ==
    /\ \E caller \in Callers, u \in Users, c \in Commitments, h \in Hashes :
          submit_zk_proof(caller, u, c, h)
    /\ UNCHANGED <<dvoteVars, treasuryVars, governanceVars, zkVars>>

RegisterVerifiedUser ==
    /\ \E caller \in Callers, u \in Users, c \in Commitments, h \in Hashes,
          t \in VerificationTypes :
          register_verified_user(caller, u, c, h, t)
    /\ UNCHANGED <<dvoteVars, treasuryVars, governanceVars, zkVars>>

AddMember ==
    /\ \E caller \in Callers, member \in Users : add_member(caller, member)
    /\ UNCHANGED <<dvoteVars, treasuryVars, governanceVars, zkVars>>

SubmitKycProof ==
    /\ \E member \in Users, kyc_hash \in Commitments, zk_proof_hash \in Hashes :
          submit_kyc_proof(member, kyc_hash, zk_proof_hash)
    /\ UNCHANGED <<dvoteVars, treasuryVars, governanceVars, zkVars>>

VerifyMember ==
    /\ \E verifier \in Callers, member \in Users : verify_member(verifier, member)
    /\ UNCHANGED <<dvoteVars, treasuryVars, governanceVars, zkVars>>

AddVerifier ==
    /\ \E caller \in Callers, verifier \in Verifiers : add_verifier(caller, verifier)
    /\ UNCHANGED <<dvoteVars, treasuryVars, governanceVars, zkVars>>

Next ==
    \/ CreateProposal
    \/ Vote
    \/ FinalizeProposal
    \/ ExecuteProposal
    \/ CancelProposal
    \/ SubmitZkProof
    \/ RegisterVerifiedUser
    \/ AddMember
    \/ SubmitKycProof
    \/ VerifyMember
    \/ AddVerifier
    \/ Tick

Spec == Init /\ [][Next]_vars

\* ---------------------------------------------------------------- DVoteDAO
\* batch_verify_members is explored with at most MaxBatch entries
MaxBatch == 2
MaxFlags == 63

\* a [u8; 32] field element whose last byte is v and whose other bytes are zero
FieldElement(v) == [i \in 1 .. 32 |-> IF i = 32 THEN v ELSE 0]

\* 160 bytes of public inputs: four commitments and the policy flags
PublicInputsOf(flags) ==
    FieldElement(11) \o FieldElement(12) \o FieldElement(13) \o FieldElement(14)
        \o FieldElement(flags)

\* proof_bytes arguments: one of 32 bytes, one of 31 bytes
ProofBytes == {[i \in 1 .. 32 |-> 7], [i \in 1 .. 31 |-> 7]}
\* public_inputs arguments: flags 3, flags 1, and 159 bytes
PublicInputs ==
    {PublicInputsOf(3), PublicInputsOf(1), SubSeq(PublicInputsOf(3), 1, 159)}
\* policy arguments offered to initialize and update_verification_policy
Policies == {1, 3, 33}
DVoteOwners == {Owner, Alice}
DVoteCallers == {Owner, Alice, Bob}
Amounts == {0, 1}

\* every failing check of DVoteDAO returns SolidityError::Revert(vec![])
Revert == "Revert"

\* verify_noir_proof_raw
verify_noir_proof_raw(proof_bytes, public_inputs) ==
    proof_bytes # <<>> /\ Len(proof_bytes) >= 32

\* DVoteDAO::parse_business_inputs
parse_business_inputs(public_inputs) ==
    IF Len(public_inputs) < 32 * 5
    THEN [ok |-> FALSE, policy_flags |-> <<>>]
    ELSE LET inputs == [i \in 1 .. (Len(public_inputs) \div 32) |->
                           SubSeq(public_inputs, (i - 1) * 32 + 1, i * 32)]
         IN  IF Len(inputs) < 5
             THEN [ok |-> FALSE, policy_flags |-> <<>>]
             ELSE [ok |-> TRUE, policy_flags |-> inputs[5]]

\* DVoteDAO::field_to_u32: bytes[28..32] of the field, big-endian
field_to_u32(field) ==
    field[29] * 16777216 + field[30] * 65536 + field[31] * 256 + field[32]

\* x & flag, for a flag of one bit
BitAnd(x, flag) == ((x \div flag) % 2) * flag

\* DVoteDAO::check_verification_policy
check_verification_policy(inputs, policy) ==
    LET policy_u32 == policy
        input_policy == field_to_u32(inputs.policy_flags)
    IN  IF BitAnd(policy_u32, 1) # 0 /\ BitAnd(input_policy, 1) = 0 THEN FALSE
        ELSE IF BitAnd(policy_u32, 2) # 0 /\ BitAnd(input_policy, 2) = 0 THEN FALSE
        ELSE IF BitAnd(policy_u32, 4) # 0 /\ BitAnd(input_policy, 4) = 0 THEN FALSE
        ELSE IF BitAnd(policy_u32, 8) # 0 /\ BitAnd(input_policy, 8) = 0 THEN FALSE
        ELSE IF BitAnd(policy_u32, 16) # 0 /\ BitAnd(input_policy, 16) = 0 THEN FALSE
        ELSE TRUE

\* DVoteDAO::hash_proof: Keccak256 of proof_bytes followed by public_inputs,
\* taken as collision-free: the digest is identified with the bytes hashed
hash_proof(proof_bytes, public_inputs) == proof_bytes \o public_inputs

\* DVoteDAO::initialize
initialize(owner, policy) ==
    /\ dvote_owner' = owner
    /\ verification_policy' = policy
    /\ treasury_balance' = 0
    /\ result' = Outcome("initialize", NoError, 0)
    /\ UNCHANGED <<verified_members, proof_registry>>

\* DVoteDAO::join_dao_with_proof: its early returns
join_dao_with_proof_error(caller, proof_bytes, public_inputs) ==
    LET parsed_inputs == parse_business_inputs(public_inputs)
    IN  IF verified_members[caller] THEN Revert
        ELSE IF ~verify_noir_proof_raw(proof_bytes, public_inputs) THEN Revert
        ELSE IF ~parsed_inputs.ok THEN Revert
        ELSE IF ~check_verification_policy(parsed_inputs, verification_policy)
        THEN Revert
        ELSE IF hash_proof(proof_bytes, public_inputs) \in proof_registry THEN Revert
        ELSE NoError

\* DVoteDAO::join_dao_with_proof
join_dao_with_proof(caller, proof_bytes, public_inputs, business_commitment) ==
    IF join_dao_with_proof_error(caller, proof_bytes, public_inputs) # NoError
    THEN UNCHANGED <<dvoteVars, result>>
    ELSE /\ verified_members' = [verified_members EXCEPT ![caller] = TRUE]
         /\ proof_registry' =
                proof_registry \cup {hash_proof(proof_bytes, public_inputs)}
         /\ result' = Outcome("join_dao_with_proof", NoError, 0)
         /\ UNCHANGED <<dvote_owner, verification_policy, treasury_balance>>

\* DVoteDAO::create_proposal: its early returns
DVoteDAO_create_proposal_error(caller, amount) ==
    IF ~verified_members[caller] THEN Revert
    ELSE IF amount > treasury_balance THEN Revert
    ELSE NoError

\* DVoteDAO::create_proposal
DVoteDAO_create_proposal(caller, description, amount, recipient) ==
    IF DVoteDAO_create_proposal_error(caller, amount) # NoError
    THEN UNCHANGED <<dvoteVars, result>>
    ELSE /\ result' = Outcome("DVoteDAO::create_proposal", NoError, 1)
         /\ UNCHANGED <<dvoteVars, treasuryVars, governanceVars, zkVars>>

\* one iteration of the loop of batch_verify_members over the storage st
batch_verify_entry(st, entry) ==
    LET proof_bytes == entry[1]
        public_inputs == entry[2]
        member_address == entry[3]
        is_valid == verify_noir_proof_raw(proof_bytes, public_inputs)
        parsed_inputs == parse_business_inputs(public_inputs)
    IN  IF is_valid /\ parsed_inputs.ok
           /\ check_verification_policy(parsed_inputs, verification_policy)
        THEN [verified_members |->
                  [st.verified_members EXCEPT ![member_address] = TRUE],
              proof_registry |->
                  st.proof_registry \cup {hash_proof(proof_bytes, public_inputs)},
              results |-> Append(st.results, is_valid)]
        ELSE [st EXCEPT !.results = Append(@, is_valid)]

\* the loop of batch_verify_members
RECURSIVE batch_verify_loop(_, _)
batch_verify_loop(st, proofs) ==
    IF proofs = <<>> THEN st
    ELSE batch_verify_loop(batch_verify_entry(st, Head(proofs)), Tail(proofs))

\* DVoteDAO::batch_verify_members
batch_verify_members(proofs) ==
    LET st == batch_verify_loop(
                  [verified_members |-> verified_members,
                   proof_registry |-> proof_registry, results |-> <<>>], proofs)
    IN  /\ verified_members' = st.verified_members
        /\ proof_registry' = st.proof_registry
        /\ result' = Outcome("batch_verify_members", NoError, st.results)
        /\ UNCHANGED <<dvote_owner, verification_policy, treasury_balance>>

\* DVoteDAO::update_verification_policy
update_verification_policy(caller, new_policy) ==
    IF caller # dvote_owner
    THEN UNCHANGED <<dvoteVars, result>>
    ELSE /\ verification_policy' = new_policy
         /\ result' = Outcome("update_verification_policy", NoError, 0)
         /\ UNCHANGED <<dvote_owner, verified_members, proof_registry,
                        treasury_balance>>

\* DVoteDAO::revoke_member
revoke_member(caller, member) ==
    IF caller # dvote_owner
    THEN UNCHANGED <<dvoteVars, result>>
    ELSE /\ verified_members' = [verified_members EXCEPT ![member] = FALSE]
         /\ result' = Outcome("revoke_member", NoError, 0)
         /\ UNCHANGED <<dvote_owner, proof_registry, verification_policy,
                        treasury_balance>>

\* the entries offered to batch_verify_members
BatchEntries == ProofBytes \X PublicInputs \X Addresses
Batches == UNION {[1 .. n -> BatchEntries] : n \in 0 .. MaxBatch}

Initialize ==
    /\ \E owner \in DVoteOwners, policy \in Policies : initialize(owner, policy)
    /\ UNCHANGED <<daoVars, treasuryVars, governanceVars, zkVars>>

JoinDaoWithProof ==
    /\ \E caller \in Addresses, p \in ProofBytes, i \in PublicInputs :
          join_dao_with_proof(caller, p, i, 0)
    /\ UNCHANGED <<daoVars, treasuryVars, governanceVars, zkVars>>

DVoteCreateProposal ==
    /\ \E caller \in Addresses, amount \in Amounts :
          DVoteDAO_create_proposal(caller, "d", amount, Elsewhere)
    /\ UNCHANGED <<daoVars, treasuryVars, governanceVars, zkVars>>

BatchVerifyMembers ==
    /\ \E proofs \in Batches : batch_verify_members(proofs)
    /\ UNCHANGED <<daoVars, treasuryVars, governanceVars, zkVars>>

UpdateVerificationPolicy ==
    /\ \E caller \in DVoteCallers, new_policy \in Policies :
          update_verification_policy(caller, new_policy)
    /\ UNCHANGED <<daoVars, treasuryVars, governanceVars, zkVars>>

RevokeMember ==
    /\ \E caller \in DVoteCallers, member \in Addresses :
          revoke_member(caller, member)
    /\ UNCHANGED <<daoVars, treasuryVars, governanceVars, zkVars>>

NextDVote ==
    \/ Initialize
    \/ JoinDaoWithProof
    \/ DVoteCreateProposal
    \/ BatchVerifyMembers
    \/ UpdateVerificationPolicy
    \/ RevokeMember

\* DVoteDAO beside a freshly constructed DAO
SpecDVote == InitFresh /\ [][NextDVote]_vars

\* ---------------------------------------------------------------- Treasury
\* A call is made by an account (call_stack empty) or, while a Treasury call
\* waits for the token contract it called, by that contract (msg::sender() is
\* then Token).  Each entry point is an operator X_error and an action X, as for
\* the DAO; t_result records every return, Err included.

\* msg::sender() of the next call
Senders == IF call_stack = <<>> THEN TreasuryCallers ELSE {Token}

\* Treasury::only_owner
only_owner(sender) ==
    IF treasury.owner # sender THEN "Ownable: caller is not the owner" ELSE NoError

\* Treasury::when_not_paused
when_not_paused == IF treasury.paused THEN "Pausable: paused" ELSE NoError

\* Treasury::get_eth_balance
get_eth_balance == 0

\* Treasury::_process_eth_withdrawal: the Result it returns; it emits a log and
\* moves no ETH
process_eth_withdrawal(to, amount) == NoError

\* the storage after a guarded call took the lock and its lock guard was dropped
Unlocked(t) ==
    [t EXCEPT !.locked = ReentrancyGuardLock_drop(ReentrancyGuard_guard(treasury.locked).locked)]

\* a call that returns: Ok with the storage it wrote, or Err and the revert
Return(op, err, ret, written) ==
    /\ treasury' = IF err = NoError THEN written ELSE EntrypointErr(treasury, written)
    /\ t_result' = Outcome(op, err, ret)

\* Treasury::init
init(sender, initial_owner) ==
    LET err == IF initial_owner = ZeroAddr THEN "Invalid owner address" ELSE NoError
    IN  /\ Return("init", err, 0,
                  [treasury EXCEPT !.owner = initial_owner, !.paused = FALSE,
                                   !.withdrawal_delay = ONE_DAY])
        /\ UNCHANGED <<eth_held, call_stack>>

\* Treasury::deposit, with msg::value() = value
deposit(sender, value) ==
    LET err == IF when_not_paused # NoError THEN when_not_paused
               ELSE IF value = 0 THEN "Amount must be greater than 0"
               ELSE NoError
    IN  /\ eth_held + value <= MaxEth
        /\ Return("deposit", err, 0, treasury)
        /\ eth_held' = IF err = NoError THEN eth_held + value ELSE eth_held
        /\ UNCHANGED call_stack

\* Treasury::withdraw_eth: its early returns
withdraw_eth_error(sender, to, amount) ==
    IF only_owner(sender) # NoError THEN only_owner(sender)
    ELSE IF when_not_paused # NoError THEN when_not_paused
    ELSE IF ReentrancyGuard_guard(treasury.locked).err # NoError
    THEN ReentrancyGuard_guard(treasury.locked).err
    ELSE IF to = ZeroAddr THEN "Invalid recipient address"
    ELSE IF amount = 0 THEN "Amount must be greater than 0"
    ELSE IF get_eth_balance < amount THEN "Insufficient ETH balance"
    ELSE process_eth_withdrawal(to, amount)

\* Treasury::withdraw_eth
withdraw_eth(sender, to, amount) ==
    /\ Return("withdraw_eth", withdraw_eth_error(sender, to, amount), 0, Unlocked(treasury))
    /\ UNCHANGED <<eth_held, call_stack>>

\* deposit_erc20: its returns before the call of the token contract
deposit_erc20_error(sender, token, amount) ==
    IF when_not_paused # NoError THEN when_not_paused
    ELSE IF ReentrancyGuard_guard(treasury.locked).err # NoError
    THEN ReentrancyGuard_guard(treasury.locked).err
    ELSE IF token = ZeroAddr THEN "Invalid token address"
    ELSE IF amount = 0 THEN "Amount must be greater than 0"
    ELSE NoError

\* withdraw_erc20 and execute_token: their returns before the calls of the
\* token contract
withdraw_erc20_error(sender, token, to, amount) ==
    IF only_owner(sender) # NoError THEN only_owner(sender)
    ELSE IF when_not_paused # NoError THEN when_not_paused
    ELSE IF ReentrancyGuard_guard(treasury.locked).err # NoError
    THEN ReentrancyGuard_guard(treasury.locked).err
    ELSE IF token = ZeroAddr THEN "Invalid token address"
    ELSE IF to = ZeroAddr THEN "Invalid recipient address"
    ELSE IF amount = 0 THEN "Amount must be greater than 0"
    ELSE NoError

\* A guarded call reaches its external call: it holds the lock and waits; the
\* frame keeps what a revert of the call restores.
ExternalCall(op, err) ==
    IF err # NoError
    THEN /\ Return(op, err, 0, treasury)
         /\ UNCHANGED <<eth_held, call_stack>>
    ELSE /\ Len(call_stack) < MaxDepth
         /\ call_stack' = Append(call_stack,
                [op |-> op, saved |-> treasury, saved_eth |-> eth_held])
         /\ treasury' = [treasury EXCEPT !.locked = ReentrancyGuard_guard(@).locked]
         /\ UNCHANGED <<eth_held, t_result>>

\* Treasury::deposit_erc20, up to token_contract.transfer_from
deposit_erc20(sender, token, amount) ==
    ExternalCall("deposit_erc20", deposit_erc20_error(sender, token, amount))

\* Treasury::withdraw_erc20, up to token_contract.balance_of and transfer
withdraw_erc20(sender, token, to, amount) ==
    ExternalCall("withdraw_erc20", withdraw_erc20_error(sender, token, to, amount))

\* Treasury::execute_token, up to token_contract.balance_of and transfer
execute_token(sender, to, token, amount) ==
    ExternalCall("execute_token", withdraw_erc20_error(sender, token, to, amount))

\* what the waiting call can return once the token contract has answered
ExternalOutcomes(op) ==
    IF op = "deposit_erc20" THEN {NoError, "Token transfer failed"}
    ELSE {NoError, "Failed to get token balance", "Insufficient token balance",
          "Token transfer failed"}

\* The token contract returns to the innermost waiting call, which returns Ok
\* (its lock guard dropped) or Err (its frame reverted, with all that the
\* contract did in between).
external_return(err) ==
    LET frame == call_stack[Len(call_stack)]
    IN  /\ call_stack # <<>>
        /\ err \in ExternalOutcomes(frame.op)
        /\ call_stack' = SubSeq(call_stack, 1, Len(call_stack) - 1)
        /\ t_result' = Outcome(frame.op, err, 0)
        /\ IF err = NoError
           THEN /\ treasury' = [treasury EXCEPT !.locked = ReentrancyGuardLock_drop(@)]
                /\ UNCHANGED eth_held
           ELSE /\ treasury' = EntrypointErr(frame.saved, treasury)
                /\ eth_held' = EntrypointErr(frame.saved_eth, eth_held)

\* the record queue_withdrawal stores
queued_withdrawal(recipient, amount) ==
    [recipient |-> recipient, amount |-> amount,
     unlock_time |-> now + treasury.withdrawal_delay,
     executed |-> FALSE, cancelled |-> FALSE]

\* queue_withdrawal without the check of the amount
queue_withdrawal_error_any_amount(sender, recipient, amount) ==
    IF only_owner(sender) # NoError THEN only_owner(sender)
    ELSE IF when_not_paused # NoError THEN when_not_paused
    ELSE IF recipient = ZeroAddr THEN "Invalid recipient"
    ELSE IF get_eth_balance < amount THEN "Insufficient balance"
    ELSE NoError

\* Treasury::queue_withdrawal: its early returns
queue_withdrawal_error(sender, recipient, amount) ==
    IF only_owner(sender) # NoError THEN only_owner(sender)
    ELSE IF when_not_paused # NoError THEN when_not_paused
    ELSE IF recipient = ZeroAddr THEN "Invalid recipient"
    ELSE IF amount = 0 THEN "Amount must be greater than 0"
    ELSE IF get_eth_balance < amount THEN "Insufficient balance"
    ELSE NoError

\* Treasury::queue_withdrawal
queue_withdrawal(sender, recipient, amount) ==
    LET withdrawal_id == treasury.withdrawal_count + 1
    IN  /\ withdrawal_id <= MaxWithdrawals
        /\ Return("queue_withdrawal", queue_withdrawal_error(sender, recipient, amount),
                  withdrawal_id,
                  [treasury EXCEPT !.withdrawal_count = withdrawal_id,
                                   !.queued_withdrawals[withdrawal_id] =
                                       queued_withdrawal(recipient, amount)])
        /\ UNCHANGED <<eth_held, call_stack>>

\* Treasury::execute_withdrawal: its checks of the record read, at a timestamp
execute_withdrawal_checks(withdrawal, timestamp) ==
    IF withdrawal.unlock_time = 0 THEN "Withdrawal does not exist"
    ELSE IF withdrawal.executed THEN "Already executed"
    ELSE IF withdrawal.cancelled THEN "Withdrawal cancelled"
    ELSE IF timestamp < withdrawal.unlock_time THEN "Not unlocked yet"
    ELSE IF get_eth_balance < withdrawal.amount THEN "Insufficient balance"
    ELSE process_eth_withdrawal(withdrawal.recipient, withdrawal.amount)

\* Treasury::execute_withdrawal: its early returns
execute_withdrawal_error(sender, withdrawal_id) ==
    IF only_owner(sender) # NoError THEN only_owner(sender)
    ELSE IF when_not_paused # NoError THEN when_not_paused
    ELSE IF ReentrancyGuard_guard(treasury.locked).err # NoError
    THEN ReentrancyGuard_guard(treasury.locked).err
    ELSE execute_withdrawal_checks(treasury.queued_withdrawals[withdrawal_id], now)

\* Treasury::execute_withdrawal
execute_withdrawal(sender, withdrawal_id) ==
    /\ Return("execute_withdrawal", execute_withdrawal_error(sender, withdrawal_id), 0,
              Unlocked([treasury EXCEPT !.queued_withdrawals[withdrawal_id].executed = TRUE]))
    /\ UNCHANGED <<eth_held, call_stack>>

\* Treasury::cancel_withdrawal: its early returns
cancel_withdrawal_error(sender, withdrawal_id) ==
    IF only_owner(sender) # NoError THEN only_owner(sender)
    ELSE IF treasury.queued_withdrawals[withdrawal_id].unlock_time = 0
    THEN "Withdrawal does not exist"
    ELSE IF treasury.queued_withdrawals[withdrawal_id].executed THEN "Already executed"
    ELSE IF treasury.queued_withdrawals[withdrawal_id].cancelled THEN "Already cancelled"
    ELSE NoError

\* Treasury::cancel_withdrawal
cancel_withdrawal(sender, withdrawal_id) ==
    /\ Return("cancel_withdrawal", cancel_withdrawal_error(sender, withdrawal_id), 0,
              [treasury EXCEPT !.queued_withdrawals[withdrawal_id].cancelled = TRUE])
    /\ UNCHANGED <<eth_held, call_stack>>

\* set_withdrawal_delay without the upper limit
set_withdrawal_delay_error_no_max(sender, delay) ==
    IF only_owner(sender) # NoError THEN only_owner(sender)
    ELSE IF delay < MIN_WITHDRAWAL_DELAY THEN "Invalid delay"
    ELSE NoError

\* Treasury::set_withdrawal_delay: its early returns
set_withdrawal_delay_error(sender, delay) ==
    IF only_owner(sender) # NoError THEN only_owner(sender)
    ELSE IF delay < MIN_WITHDRAWAL_DELAY \/ delay > MAX_WITHDRAWAL_DELAY
    THEN "Invalid delay"
    ELSE NoError

\* set_withdrawal_delay that also moves the unlock time of every stored record
set_withdrawal_delay_moves_unlock_time(sender, delay) ==
    /\ Return("set_withdrawal_delay", set_withdrawal_delay_error(sender, delay), 0,
              [treasury EXCEPT
                  !.withdrawal_delay = delay,
                  !.queued_withdrawals =
                      [id \in WithdrawalIds |-> [@[id] EXCEPT !.unlock_time = @ + delay]]])
    /\ UNCHANGED <<eth_held, call_stack>>

\* Treasury::set_withdrawal_delay
set_withdrawal_delay(sender, delay) ==
    /\ Return("set_withdrawal_delay", set_withdrawal_delay_error(sender, delay), 0,
              [treasury EXCEPT !.withdrawal_delay = delay])
    /\ UNCHANGED <<eth_held, call_stack>>

\* Treasury::pause
pause(sender) ==
    /\ Return("pause", only_owner(sender), 0, [treasury EXCEPT !.paused = TRUE])
    /\ UNCHANGED <<eth_held, call_stack>>

\* Treasury::unpause
unpause(sender) ==
    /\ Return("unpause", only_owner(sender), 0, [treasury EXCEPT !.paused = FALSE])
    /\ UNCHANGED <<eth_held, call_stack>>

\* Treasury::transfer_ownership
transfer_ownership(sender, new_owner) ==
    LET err == IF only_owner(sender) # NoError THEN only_owner(sender)
               ELSE IF new_owner = ZeroAddr THEN "New owner is the zero address"
               ELSE NoError
    IN  /\ Return("transfer_ownership", err, 0, [treasury EXCEPT !.owner = new_owner])
        /\ UNCHANGED <<eth_held, call_stack>>

\* Treasury::emergency_withdraw
emergency_withdraw(sender, to, amount) ==
    LET err == IF only_owner(sender) # NoError THEN only_owner(sender)
               ELSE IF to = ZeroAddr THEN "Invalid recipient"
               ELSE IF amount = 0 THEN "Amount must be greater than 0"
               ELSE IF get_eth_balance < amount THEN "Insufficient balance"
               ELSE process_eth_withdrawal(to, amount)
    IN  /\ Return("emergency_withdraw", err, 0, treasury)
        /\ UNCHANGED <<eth_held, call_stack>>

TInit ==
    /\ \E sender \in Senders, o \in InitialOwners : init(sender, o)
    /\ UNCHANGED <<daoVars, dvoteVars, result, governanceVars, zkVars>>

Deposit ==
    /\ \E sender \in Senders, value \in EthAmounts : deposit(sender, value)
    /\ UNCHANGED <<daoVars, dvoteVars, result, governanceVars, zkVars>>

WithdrawEth ==
    /\ \E sender \in Senders, to \in Recipients, amount \in EthAmounts :
          withdraw_eth(sender, to, amount)
    /\ UNCHANGED <<daoVars, dvoteVars, result, governanceVars, zkVars>>

DepositErc20 ==
    /\ \E sender \in Senders, token \in Tokens, amount \in EthAmounts :
          deposit_erc20(sender, token, amount)
    /\ UNCHANGED <<daoVars, dvoteVars, result, governanceVars, zkVars>>

WithdrawErc20 ==
    /\ \E sender \in Senders, token \in Tokens, to \in Recipients, amount \in EthAmounts :
          withdraw_erc20(sender, token, to, amount)
    /\ UNCHANGED <<daoVars, dvoteVars, result, governanceVars, zkVars>>

ExecuteToken ==
    /\ \E sender \in Senders, token \in Tokens, to \in Recipients, amount \in EthAmounts :
          execute_token(sender, to, token, amount)
    /\ UNCHANGED <<daoVars, dvoteVars, result, governanceVars, zkVars>>

ExternalReturn ==
    /\ \E err \in ExternalOutcomes("withdraw_erc20") : external_return(err)
    /\ UNCHANGED <<daoVars, dvoteVars, result, governanceVars, zkVars>>

QueueWithdrawal ==
    /\ \E sender \in Senders, recipient \in Recipients, amount \in EthAmounts :
          queue_withdrawal(sender, recipient, amount)
    /\ UNCHANGED <<daoVars, dvoteVars, result, governanceVars, zkVars>>

ExecuteWithdrawal ==
    /\ \E sender \in Senders, id \in WithdrawalIds : execute_withdrawal(sender, id)
    /\ UNCHANGED <<daoVars, dvoteVars, result, governanceVars, zkVars>>

CancelWithdrawal ==
    /\ \E sender \in Senders, id \in WithdrawalIds : cancel_withdrawal(sender, id)
    /\ UNCHANGED <<daoVars, dvoteVars, result, governanceVars, zkVars>>

SetWithdrawalDelay ==
    /\ \E sender \in Senders, delay \in Delays : set_withdrawal_delay(sender, delay)
    /\ UNCHANGED <<daoVars, dvoteVars, result, governanceVars, zkVars>>

Pause ==
    /\ \E sender \in Senders : pause(sender)
    /\ UNCHANGED <<daoVars, dvoteVars, result, governanceVars, zkVars>>

Unpause ==
    /\ \E sender \in Senders : unpause(sender)
    /\ UNCHANGED <<daoVars, dvoteVars, result, governanceVars, zkVars>>

TransferOwnership ==
    /\ \E sender \in Senders, new_owner \in InitialOwners : transfer_ownership(sender, new_owner)
    /\ UNCHANGED <<daoVars, dvoteVars, result, governanceVars, zkVars>>

EmergencyWithdraw ==
    /\ \E sender \in Senders, to \in Recipients, amount \in EthAmounts :
          emergency_withdraw(sender, to, amount)
    /\ UNCHANGED <<daoVars, dvoteVars, result, governanceVars, zkVars>>

NextTreasury ==
    \/ TInit
    \/ Deposit
    \/ WithdrawEth
    \/ DepositErc20
    \/ WithdrawErc20
    \/ ExecuteToken
    \/ ExternalReturn
    \/ QueueWithdrawal
    \/ ExecuteWithdrawal
    \/ CancelWithdrawal
    \/ SetWithdrawalDelay
    \/ Pause
    \/ Unpause
    \/ TransferOwnership
    \/ EmergencyWithdraw
    \/ Tick

\* the Treasury beside a freshly constructed DAO
SpecTreasury == InitFresh /\ [][NextTreasury]_vars

\* ---------------------------------------------------------- GovernanceToken
\* GovernanceToken::_check_role
_check_role(t, role, account) ==
    IF ~t.roles[role][account] THEN "AccessControl: missing role" ELSE NoError

\* GovernanceToken::_check_not_paused
_check_not_paused(t) == IF t.paused THEN "Contract is paused" ELSE NoError

\* GovernanceToken::_get_current_votes
_get_current_votes(checkpoints) ==
    IF Len(checkpoints) > 0 THEN checkpoints[Len(checkpoints)].votes ELSE 0

\* a checkpoint write that always pushes
_write_checkpoint_always_push(checkpoints, votes) ==
    Append(checkpoints, [from_block |-> now, votes |-> votes])

\* a checkpoint write that replaces the last entry whatever its timestamp
_write_checkpoint_replace_last(checkpoints, votes) ==
    IF Len(checkpoints) > 0
    THEN [checkpoints EXCEPT ![Len(checkpoints)] = [from_block |-> now, votes |-> votes]]
    ELSE Append(checkpoints, [from_block |-> now, votes |-> votes])

\* GovernanceToken::_write_checkpoint, at block::timestamp() = now
_write_checkpoint(checkpoints, votes) ==
    IF Len(checkpoints) > 0 /\ checkpoints[Len(checkpoints)].from_block = now
    THEN [checkpoints EXCEPT ![Len(checkpoints)].votes = votes]
    ELSE Append(checkpoints, [from_block |-> now, votes |-> votes])

\* GovernanceToken::_move_voting_power
_move_voting_power(t, from, to, amount) ==
    IF from # to /\ amount > 0
    THEN LET t1 == IF from # ZeroAddr
                   THEN [t EXCEPT !.checkpoints[from] =
                            _write_checkpoint(@, _get_current_votes(@) - amount)]
                   ELSE t
         IN  IF to # ZeroAddr
             THEN [t1 EXCEPT !.checkpoints[to] =
                      _write_checkpoint(@, _get_current_votes(@) + amount)]
             ELSE t1
    ELSE t

\* a delegation that moves no voting power
_delegate_moves_nothing(t, delegator, delegatee) ==
    [t EXCEPT !.delegates_mapping[delegator] = delegatee]

\* GovernanceToken::_delegate
_delegate(t, delegator, delegatee) ==
    LET current_delegate == t.delegates_mapping[delegator]
        delegator_balance == t.balances[delegator]
    IN  _move_voting_power([t EXCEPT !.delegates_mapping[delegator] = delegatee],
                           current_delegate, delegatee, delegator_balance)

\* GovernanceToken::_mint, for to != Address::ZERO
_mint(t, to, amount) ==
    LET new_supply == t.total_supply + amount
        t1 == [t EXCEPT !.total_supply = new_supply,
                        !.balances[to] = @ + amount]
        delegate_ == t.delegates_mapping[to]
    IN  IF delegate_ # ZeroAddr
        THEN _move_voting_power(t1, ZeroAddr, delegate_, amount)
        ELSE t1

\* GovernanceToken::_burn: its early returns
_burn_error(t, from, amount) ==
    IF from = ZeroAddr THEN "Burn from zero address"
    ELSE IF t.balances[from] < amount THEN "Insufficient balance to burn"
    ELSE NoError

\* GovernanceToken::_burn.  total_supply - amount wraps when init has reset
\* total_supply below the balances: a negative total_supply stands for
\* 2^256 + total_supply
_burn(t, from, amount) ==
    LET new_supply == t.total_supply - amount
        t1 == [t EXCEPT !.balances[from] = @ - amount,
                        !.total_supply = new_supply]
        delegate_ == t.delegates_mapping[from]
    IN  IF delegate_ # ZeroAddr
        THEN _move_voting_power(t1, delegate_, ZeroAddr, amount)
        ELSE t1

\* GovernanceToken::_transfer: its early returns
_transfer_error(t, from, to, amount) ==
    IF _check_not_paused(t) # NoError THEN _check_not_paused(t)
    ELSE IF from = ZeroAddr THEN "Transfer from zero address"
    ELSE IF to = ZeroAddr THEN "Transfer to zero address"
    ELSE IF t.balances[from] < amount THEN "Insufficient balance"
    ELSE NoError

\* GovernanceToken::_transfer
_transfer(t, from, to, amount) ==
    LET t1 == [t EXCEPT !.balances[from] = @ - amount]
        t2 == [t1 EXCEPT !.balances[to] = @ + amount]
        t3 == _move_voting_power(t2, t2.delegates_mapping[from],
                                 t2.delegates_mapping[to], amount)
    IN  IF t3.auto_delegation_enabled /\ to # ZeroAddr
           /\ t3.delegates_mapping[to] = ZeroAddr /\ t3.balances[to] > 0
        THEN _delegate(t3, to, to)
        ELSE t3

\* a search that returns the first checkpoint at or before the timepoint
_binary_search_checkpoints_from_front(checkpoints, timepoint) ==
    LET hits == {i \in 1 .. Len(checkpoints) : checkpoints[i].from_block <= timepoint}
    IN  IF hits = {} THEN 0
        ELSE checkpoints[CHOOSE i \in hits : \A j \in hits : i <= j].votes

\* GovernanceToken::_binary_search_checkpoints: the scan from the last
\* checkpoint down, returning at the first one with from_block <= timepoint
RECURSIVE _scan_checkpoints(_, _, _)
_scan_checkpoints(checkpoints, timepoint, i) ==
    IF i = 0 THEN 0
    ELSE IF checkpoints[i].from_block <= timepoint THEN checkpoints[i].votes
    ELSE _scan_checkpoints(checkpoints, timepoint, i - 1)

_binary_search_checkpoints(checkpoints, timepoint) ==
    IF Len(checkpoints) = 0 THEN 0
    ELSE _scan_checkpoints(checkpoints, timepoint, Len(checkpoints))

\* GovernanceToken::get_past_votes: the Err or the value returned
get_past_votes(account, timepoint) ==
    IF timepoint >= now
    THEN [err |-> "Timepoint must be in the past", ret |-> 0]
    ELSE [err |-> NoError,
          ret |-> _binary_search_checkpoints(governance_token.checkpoints[account],
                                             timepoint)]

\* GovernanceToken::get_votes
get_votes(account) ==
    IF account \in TokenAccounts
    THEN _get_current_votes(governance_token.checkpoints[account])
    ELSE 0

\* GovernanceToken::delegates
delegates(account) == governance_token.delegates_mapping[account]

\* the balances of all accounts, added up
TotalBalance(t) == t.balances[Owner] + t.balances[Alice]

\* a call that returns: Ok with the storage it wrote, or Err and the revert
TokenReturn(op, err, ret, written) ==
    governance_token' = IF err = NoError THEN written
                        ELSE EntrypointErr(governance_token, written)

\* an arithmetic overflow: a panic where the build checks it, else the wrap
Panic == "panic"

\* GovernanceToken::init
gt_init(sender, admin, initial_mint) ==
    LET err == IF admin = ZeroAddr THEN "Invalid admin address" ELSE NoError
        t1 == [governance_token EXCEPT
                  !.total_supply = 0,
                  !.roles = [r \in Roles |-> [@[r] EXCEPT ![admin] = TRUE]]]
        t2 == IF initial_mint > 0
              THEN _delegate(_mint(t1, admin, initial_mint), admin, admin)
              ELSE t1
    IN  /\ err = NoError => TotalBalance(governance_token) + initial_mint <= MaxTokens
        /\ TokenReturn("init", err, 0,
                       IF err = NoError
                       THEN [t2 EXCEPT !.last_mint_time = now,
                                       !.auto_delegation_enabled = TRUE]
                       ELSE governance_token)

\* GovernanceToken::mint: its early returns
mint_error(sender, to, amount) ==
    LET t == governance_token
    IN  IF _check_role(t, "MINTER_ROLE", sender) # NoError
        THEN _check_role(t, "MINTER_ROLE", sender)
        ELSE IF _check_not_paused(t) # NoError THEN _check_not_paused(t)
        ELSE IF to = ZeroAddr THEN "Cannot mint to zero address"
        ELSE IF amount = 0 THEN "Amount must be > 0"
        ELSE IF t.total_supply + amount > MAX_SUPPLY
                \/ (t.total_supply < 0 /\ t.total_supply + amount < 0)
        THEN "Cap exceeded"
        ELSE IF now < t.last_mint_time + MINT_COOLDOWN THEN "Mint cooldown active"
        ELSE NoError

\* GovernanceToken::mint
mint(sender, to, amount) ==
    LET err == mint_error(sender, to, amount)
        t1 == _mint(governance_token, to, amount)
        t2 == [t1 EXCEPT !.last_mint_time = now]
        t3 == IF t2.auto_delegation_enabled /\ t2.delegates_mapping[to] = ZeroAddr
              THEN _delegate(t2, to, to)
              ELSE t2
    IN  /\ err = NoError => TotalBalance(governance_token) + amount <= MaxTokens
        /\ \/ TokenReturn("mint", err, 0, IF err = NoError THEN t3 ELSE governance_token)
           \/ /\ governance_token.total_supply < 0
              /\ governance_token.total_supply + amount >= 0
              /\ err \in {NoError, "Mint cooldown active"}
              /\ TokenReturn("mint", Panic, 0, governance_token)

\* GovernanceToken::burn
burn(sender, amount) ==
    LET err == _burn_error(governance_token, sender, amount)
    IN  \/ TokenReturn("burn", err, 0,
                       IF err = NoError THEN _burn(governance_token, sender, amount)
                       ELSE governance_token)
        \/ /\ err = NoError
           /\ governance_token.total_supply >= 0
           /\ governance_token.total_supply < amount
           /\ TokenReturn("burn", Panic, 0, governance_token)

\* GovernanceToken::transfer
transfer(sender, to, amount) ==
    LET err == _transfer_error(governance_token, sender, to, amount)
    IN  TokenReturn("transfer", err, 0,
                    IF err = NoError THEN _transfer(governance_token, sender, to, amount)
                    ELSE governance_token)

\* GovernanceToken::delegate: its early return
delegate_error(sender, delegatee) ==
    IF delegatee = ZeroAddr THEN "Cannot delegate to zero address" ELSE NoError

\* GovernanceToken::delegate
delegate(sender, delegatee) ==
    LET err == delegate_error(sender, delegatee)
    IN  TokenReturn("delegate", err, 0,
                    IF err = NoError THEN _delegate(governance_token, sender, delegatee)
                    ELSE governance_token)

\* GovernanceToken::set_auto_delegation
set_auto_delegation(sender, enabled) ==
    TokenReturn("set_auto_delegation", _check_role(governance_token, "ADMIN_ROLE", sender),
                0, [governance_token EXCEPT !.auto_delegation_enabled = enabled])

\* ------------------------------------------------- GovernanceToken actions
GtInit ==
    /\ \E sender \in TokenAccounts, admin \in Admins, initial_mint \in TokenAmounts :
          gt_init(sender, admin, initial_mint)
    /\ UNCHANGED <<daoVars, dvoteVars, result, treasuryVars, zkVars>>

Mint ==
    /\ \E sender \in TokenAccounts, to \in TokenAddresses, amount \in TokenAmounts :
          mint(sender, to, amount)
    /\ UNCHANGED <<daoVars, dvoteVars, result, treasuryVars, zkVars>>

Burn ==
    /\ \E sender \in TokenAccounts, amount \in TokenAmounts : burn(sender, amount)
    /\ UNCHANGED <<daoVars, dvoteVars, result, treasuryVars, zkVars>>

Transfer ==
    /\ \E sender \in TokenAccounts, to \in TokenAddresses, amount \in TokenAmounts :
          transfer(sender, to, amount)
    /\ UNCHANGED <<daoVars, dvoteVars, result, treasuryVars, zkVars>>

Delegate ==
    /\ \E sender \in TokenAccounts, delegatee \in TokenAddresses :
          delegate(sender, delegatee)
    /\ UNCHANGED <<daoVars, dvoteVars, result, treasuryVars, zkVars>>

SetAutoDelegation ==
    /\ \E sender \in TokenAccounts, enabled \in BOOLEAN :
          set_auto_delegation(sender, enabled)
    /\ UNCHANGED <<daoVars, dvoteVars, result, treasuryVars, zkVars>>

\* a later block: block::timestamp() moves on to a later one of TokenTimes
TokenTick ==
    /\ \E t \in TokenTimes : t > now /\ now' = t
    /\ UNCHANGED <<proposal_count, proposal_core, execution_data, user_votes,
                   members, validated_proofs, shadow_id_registry, kyc_verifiers, locked,
                   uses, creates, dvoteVars, result, treasuryVars, governanceVars, zkVars>>

NextGovernanceToken ==
    \/ GtInit
    \/ Mint
    \/ Burn
    \/ Transfer
    \/ Delegate
    \/ SetAutoDelegation
    \/ TokenTick

\* the GovernanceToken beside a freshly constructed DAO
SpecGovernanceToken == InitFresh /\ [][NextGovernanceToken]_vars

\* ------------------------------------------------------------ ZkEnhancedDAO
\* ZkVerificationStorage::verify_dvote_circuit: Err for a circuit type it does
\* not support or that the proof does not name, else the verifier's verdict
verify_dvote_circuit(circuit_type, proof) ==
    IF circuit_type \notin SupportedCircuitTypes
    THEN [err |-> "Unsupported circuit type", ok |-> FALSE]
    ELSE IF proof.circuit_name # circuit_type
    THEN [err |-> "Circuit type mismatch", ok |-> FALSE]
    ELSE [err |-> NoError, ok |-> proof.valid]

\* ZkEnhancedDAO::submit_membership_proof
submit_membership_proof(member, proof_type, proof) ==
    LET verification_result == verify_dvote_circuit(proof_type, proof)
    IN  /\ zk_result' = ZkOutcome("submit_membership_proof", verification_result.err,
                                  verification_result.ok, 0)
        /\ zk_dao' = IF verification_result.err = NoError /\ verification_result.ok
                     THEN [zk_dao EXCEPT !.member_zk_proofs[member][proof_type] = TRUE]
                     ELSE zk_dao
        /\ UNCHANGED <<daoVars, result>>

\* ZkEnhancedDAO::create_zk_proposal: its early returns.  The base proposal is
\* created with the zero address as target and a zero commitment and proof hash
create_zk_proposal_error(creator, required_proof_type) ==
    IF ~zk_dao.member_zk_proofs[creator][required_proof_type]
    THEN "Creator must have required ZK proof"
    ELSE create_proposal_error(creator, ZeroAddr, Zero32, Zero32)

\* ZkEnhancedDAO::create_zk_proposal
create_zk_proposal(creator, title, description, required_proof_type) ==
    LET err == create_zk_proposal_error(creator, required_proof_type)
        proposal_id == proposal_count
    IN  IF err # NoError
        THEN /\ zk_result' = ZkOutcome("create_zk_proposal", err, FALSE, 0)
             /\ zk_dao' = EntrypointErr(zk_dao, zk_dao)
             /\ UNCHANGED <<daoVars, result>>
        ELSE /\ create_proposal(creator, title, description, ZeroAddr, 0, <<>>,
                                Zero32, Zero32)
             /\ zk_dao' = [zk_dao EXCEPT !.proposal_zk_requirements[proposal_id] =
                                            required_proof_type]
             /\ zk_result' = ZkOutcome("create_zk_proposal", NoError, FALSE, proposal_id)

SubmitMembershipProof ==
    /\ \E member \in Users, proof_type \in CircuitTypes, proof \in MembershipProofs :
          submit_membership_proof(member, proof_type, proof)
    /\ UNCHANGED <<dvoteVars, treasuryVars, governanceVars>>

CreateZkProposal ==
    /\ \E creator \in Users, required_proof_type \in CircuitTypes :
          create_zk_proposal(creator, "t", "d", required_proof_type)
    /\ UNCHANGED <<dvoteVars, treasuryVars, governanceVars>>

\* The ZkEnhancedDAO's calls, with the calls that verify a member in a DAO:
\* create_zk_proposal is explored for creators the embedded DAO holds as
\* verified and for creators it does not.
NextZkDAO ==
    \/ SubmitMembershipProof
    \/ CreateZkProposal
    \/ SubmitZkProof
    \/ RegisterVerifiedUser
    \/ Tick

SpecZkDAO == InitFresh /\ [][NextZkDAO]_vars


\* ------------------------------------------------------------------ claims
\* the three tallies of a stored proposal
Tallies(core) == <<core.for_votes, core.against_votes, core.abstain_votes>>

\* member.verified AND commitment != 0 AND proofHash != 0, read off the record
RecordVerified(m) ==
    m.verified /\ m.kyc_commitment # Zero32 /\ m.proof_hash # Zero32

\* C1 as stated: once (proposalId, voter) has a VoteRecord, every vote call by
\* that voter on that proposal returns the AlreadyVoted error.
C1_EveryRevoteIsAlreadyVoted ==
    \A u \in Users, i \in ProposalIds, ch \in Choices, c \in Commitments, h \in Hashes :
        user_votes[<<i, u>>].has_voted =>
            vote_error(u, i, ch, c, h) = "User already voted on this proposal"

\* C1 amended: once a vote by a voter on a proposal has succeeded, every later
\* vote call by that voter on that proposal fails -- with AlreadyVoted when the
\* voter is still verified and presents a non-zero commitment and proof hash,
\* with KycRequired or InvalidProof otherwise -- and no step changes the stored
\* VoteRecord again; the call leaves the three tallies unchanged.
C1_VoteAtMostOnce ==
    /\ [](\A u \in Users, i \in ProposalIds :
            user_votes[<<i, u>>].has_voted =>
                \A ch \in Choices, c \in Commitments, h \in Hashes :
                    LET e == vote_error(u, i, ch, c, h)
                    IN  /\ e \in {"User already voted on this proposal",
                                  "KYC required", "Invalid ZK proof for vote"}
                        /\ (RecordVerified(members[u]) /\ c # Zero32 /\ h # Zero32)
                              => e = "User already voted on this proposal")
    /\ [][\A u \in Users, i \in ProposalIds :
            user_votes[<<i, u>>].has_voted =>
                /\ user_votes'[<<i, u>>] = user_votes[<<i, u>>]
                /\ Tallies(proposal_core'[i]) # Tallies(proposal_core[i]) =>
                      ~ \E ch \in Choices, c \in Commitments, h \in Hashes :
                            vote(u, i, ch, c, h)
       ]_vars

\* C1 witness: the voter has voted on a proposal that is still Active and inside
\* its voting window, and is still verified, so only the stored VoteRecord
\* stands between the voter and a second vote.
C1_Witness ==
    \E u \in Users, i \in ProposalIds :
        /\ user_votes[<<i, u>>].has_voted
        /\ result.op = "vote"
        /\ RecordVerified(members[u])
        /\ proposal_core[i].state = "Active"
        /\ now <= proposal_core[i].end_time
        /\ vote_error(u, i, 0, "c1", "h1") = "User already voted on this proposal"

\* C2 as stated: no proof hash is presented by more than one successful
\* create_proposal, vote or execute_proposal call.
C2_ProofHashUsedOnce == \A h \in Hashes : uses[h] <= 1

\* C3 as stated: a call of join_dao_with_proof or batch_verify_members that
\* presents only proof bytes and public inputs whose hash proof_registry already
\* holds makes no address a verified member.
C3_RegisteredProofAddsNoMember ==
    [][/\ \A caller \in Addresses, p \in ProofBytes, i \in PublicInputs :
              (/\ hash_proof(p, i) \in proof_registry
               /\ join_dao_with_proof(caller, p, i, 0))
                  => \A a \in Addresses : verified_members'[a] => verified_members[a]
       /\ \A proofs \in Batches :
              (/\ proofs # <<>>
               /\ \A k \in DOMAIN proofs :
                      hash_proof(proofs[k][1], proofs[k][2]) \in proof_registry
               /\ batch_verify_members(proofs))
                  => \A a \in Addresses : verified_members'[a] => verified_members[a]
      ]_vars

\* proposal id i has been returned by a successful create_proposal
Created(i) == i < proposal_count

\* the state changes the specification allows
AllowedEdges ==
    {<<"Active", "Passed">>, <<"Active", "Rejected">>, <<"Active", "Cancelled">>,
     <<"Passed", "Executed">>}

\* C4: the state of a created proposal changes only along Active->Passed,
\* Active->Rejected, Active->Cancelled and Passed->Executed; so Executed,
\* Rejected and Cancelled are terminal and nothing moves a proposal back to
\* Active.
C4_StateTransitions ==
    [][\A i \in ProposalIds :
          Created(i) =>
              \/ proposal_core'[i].state = proposal_core[i].state
              \/ <<proposal_core[i].state, proposal_core'[i].state>> \in AllowedEdges
      ]_vars

\* C4 witness: a created proposal has gone Active -> Passed -> Executed, the
\* last step being the execute_proposal call that just returned.
C4_Witness ==
    \E i \in ProposalIds :
        /\ Created(i)
        /\ proposal_core[i].state = "Executed"
        /\ result.op = "execute_proposal"

\* C5: finalize_proposal returns Ok only on a proposal that is Active with
\* now > end_time, and then leaves it not Active; on a proposal that is not
\* Active every finalize_proposal call fails and changes nothing; and a created
\* proposal that has left Active never becomes Active again, so it is finalized
\* at most once.
C5_FinalizeAtMostOnce ==
    /\ [](\A i \in ProposalIds :
            /\ finalize_proposal_error(i) = NoError =>
                  /\ proposal_core[i].state = "Active"
                  /\ now > proposal_core[i].end_time
            /\ proposal_core[i].state # "Active" =>
                  finalize_proposal_error(i) # NoError)
    /\ [][\A i \in ProposalIds :
            /\ (finalize_proposal_error(i) = NoError /\ finalize_proposal(i)) =>
                  proposal_core'[i].state \in {"Passed", "Rejected"}
            /\ (proposal_core[i].state # "Active" /\ finalize_proposal(i)) =>
                  UNCHANGED <<proposal_core, execution_data, user_votes,
                              proposal_count>>
            /\ (Created(i) /\ proposal_core[i].state # "Active") =>
                  proposal_core'[i].state # "Active"
       ]_vars

\* C5 witness: finalize_proposal has just returned Ok on a created proposal,
\* and a second finalize_proposal on it fails.
C5_Witness ==
    \E i \in ProposalIds :
        /\ Created(i)
        /\ result.op = "finalize_proposal"
        /\ proposal_core[i].state \in {"Passed", "Rejected"}
        /\ now > proposal_core[i].end_time
        /\ finalize_proposal_error(i) = "Proposal not active"

\* C6: a finalize_proposal call that returns Ok leaves the proposal Passed if
\* for + against + abstain >= quorum_required and for > against, and Rejected
\* otherwise, and does not change the three tallies.
C6_FinalizeOutcome ==
    [][\A i \in ProposalIds :
          (finalize_proposal_error(i) = NoError /\ finalize_proposal(i)) =>
              LET f == proposal_core[i].for_votes
                  a == proposal_core[i].against_votes
                  b == proposal_core[i].abstain_votes
              IN  /\ proposal_core'[i].state =
                        IF f + a + b >= quorum_required /\ f > a THEN "Passed" ELSE "Rejected"
                  /\ Tallies(proposal_core'[i]) = <<f, a, b>>
      ]_vars

\* C6 witness: finalize_proposal has just made Passed a proposal whose tallies
\* sum to exactly the quorum.
C6_Witness ==
    \E i \in ProposalIds :
        /\ Created(i)
        /\ result.op = "finalize_proposal"
        /\ proposal_core[i].state = "Passed"
        /\ proposal_core[i].for_votes + proposal_core[i].against_votes
              + proposal_core[i].abstain_votes = quorum_required

\* C7: execute_proposal returns Ok only on a proposal that is Passed, whose
\* execution record is not executed, with now >= timelock_end; the call then
\* sets executed and the state Executed; executed, once set, stays set, and
\* every execute_proposal on an executed proposal fails.
C7_ExecuteAtMostOnce ==
    /\ [](\A u \in Users, i \in ProposalIds, c \in Commitments, h \in Hashes :
            /\ execute_proposal_error(u, i, c, h) = NoError =>
                  /\ proposal_core[i].state = "Passed"
                  /\ ~execution_data[i].executed
                  /\ now >= execution_data[i].timelock_end
            /\ execution_data[i].executed =>
                  execute_proposal_error(u, i, c, h) # NoError)
    /\ [][\A i \in ProposalIds :
            /\ \A u \in Users, c \in Commitments, h \in Hashes :
                  (execute_proposal_error(u, i, c, h) = NoError
                      /\ execute_proposal(u, i, c, h)) =>
                      /\ execution_data'[i].executed
                      /\ proposal_core'[i].state = "Executed"
            /\ execution_data[i].executed => execution_data'[i].executed
       ]_vars

\* C7 witness: execute_proposal has just executed a proposal, and the same
\* caller's next execute_proposal on it fails.
C7_Witness ==
    \E u \in Users, i \in ProposalIds :
        /\ result.op = "execute_proposal"
        /\ execution_data[i].executed
        /\ proposal_core[i].state = "Executed"
        /\ RecordVerified(members[u])
        /\ execute_proposal_error(u, i, "c1", "h1") = "Proposal not in passed state"

\* C8: for a caller whose member record is not (verified, with a non-zero
\* commitment and a non-zero proof hash), every create_proposal, vote and
\* execute_proposal call fails with "KYC required", and such a call creates no
\* proposal, changes no tally, writes no VoteRecord and executes nothing.
C8_UnverifiedCallerRejected ==
    /\ [](\A u \in Users :
            ~RecordVerified(members[u]) =>
                \A i \in ProposalIds, c \in Commitments, h \in Hashes :
                    /\ \A target \in Targets :
                          create_proposal_error(u, target, c, h) = "KYC required"
                    /\ \A ch \in Choices :
                          vote_error(u, i, ch, c, h) = "KYC required"
                    /\ execute_proposal_error(u, i, c, h) = "KYC required")
    /\ [][\A u \in Users :
            ~RecordVerified(members[u]) =>
                \/ UNCHANGED <<proposal_count, proposal_core, execution_data,
                               user_votes>>
                \/ ~ \E i \in ProposalIds, c \in Commitments, h \in Hashes :
                        \/ \E target \in Targets :
                              create_proposal(u, "t", "d", target, 0, <<>>, c, h)
                        \/ \E ch \in Choices : vote(u, i, ch, c, h)
                        \/ execute_proposal(u, i, c, h)
       ]_vars

\* C8 witness: the caller's record has the verified flag set and a zero
\* commitment, a created proposal is open for voting, and the caller's vote
\* with a non-zero commitment and proof hash fails with "KYC required".
C8_Witness ==
    \E u \in Users, i \in ProposalIds :
        /\ members[u].verified
        /\ ~RecordVerified(members[u])
        /\ Created(i)
        /\ proposal_core[i].state = "Active"
        /\ now <= proposal_core[i].end_time
        /\ vote_error(u, i, 0, "c1", "h1") = "KYC required"

\* C9: create_proposal returns Ok only for an allowed target; a call that
\* returns Ok stores under the next id a proposal with start_time = now,
\* end_time = now + voting_period, state Active and zero tallies, and the given
\* target; a call that fails returns "KYC required", "Invalid ZK proof or
\* commitment" or "Target contract not allowed", stores no proposal and leaves
\* proposal_count unchanged.
C9_CreateProposal ==
    /\ [](\A p \in Users, target \in Targets, c \in Commitments, h \in Hashes :
            LET e == create_proposal_error(p, target, c, h)
            IN  /\ e = NoError => target = Treasury
                /\ e \in {NoError, "KYC required", "Invalid ZK proof or commitment",
                          "Target contract not allowed"})
    /\ [][\A p \in Users, target \in Targets, c \in Commitments, h \in Hashes :
            IF create_proposal_error(p, target, c, h) # NoError
            THEN \/ UNCHANGED <<proposal_count, proposal_core, execution_data>>
                 \/ ~create_proposal(p, "t", "d", target, 0, <<>>, c, h)
            ELSE create_proposal(p, "t", "d", target, 0, <<>>, c, h) =>
                     LET core == proposal_core'[proposal_count]
                     IN  /\ core.start_time = now
                         /\ core.end_time = now + VotingPeriod
                         /\ core.state = "Active"
                         /\ Tallies(core) = <<0, 0, 0>>
                         /\ core.proposer = p
                         /\ execution_data'[proposal_count].target = target
                         /\ ~execution_data'[proposal_count].executed
       ]_vars

\* C9 witness: create_proposal has just stored a proposal, and the same call
\* with a target outside the allow-list fails with "Target contract not allowed".
C9_Witness ==
    \E p \in Users, i \in ProposalIds :
        /\ result.op = "create_proposal"
        /\ result.ret = i
        /\ proposal_core[i].proposer = p
        /\ proposal_core[i].start_time = now
        /\ proposal_core[i].state = "Active"
        /\ create_proposal_error(p, Elsewhere, "c1", "h1") = "Target contract not allowed"

\* C10: proposal_count is one more than the number of successful
\* create_proposal calls; the k-th successful call returns k and stores its
\* record under k; every record stored under an earlier id keeps its id, and a
\* creation leaves the records of the earlier ids unchanged.
C10_MonotonicIds ==
    /\ [](/\ proposal_count = creates + 1
          /\ \A i \in ProposalIds : i <= creates => proposal_core[i].id = i)
    /\ [][\A p \in Users, target \in Targets, c \in Commitments, h \in Hashes :
            (create_proposal_error(p, target, c, h) = NoError
                /\ create_proposal(p, "t", "d", target, 0, <<>>, c, h)) =>
                /\ result'.ret = creates + 1
                /\ proposal_core'[creates + 1].id = creates + 1
                /\ \A i \in ProposalIds :
                      i <= creates =>
                          /\ proposal_core'[i] = proposal_core[i]
                          /\ execution_data'[i] = execution_data[i]
       ]_vars

\* C10 witness: the second successful create_proposal has returned 2, and the
\* records of proposals 1 and 2 are both in place.
C10_Witness ==
    /\ result.op = "create_proposal"
    /\ result.ret = 2
    /\ creates = 2
    /\ proposal_core[1].id = 1
    /\ proposal_core[1].proposer = Alice
    /\ proposal_core[2].id = 2

C12_ValidateRejectsZero ==
    \A u \in Users, c \in Commitments, h \in Hashes :
        (IsZero(c) \/ IsZero(h)) =>
            /\ validate_zk_proof(u, c, h).ok = FALSE
            /\ validate_zk_proof(u, c, h).members = members
            /\ validate_zk_proof(u, c, h).validated_proofs = validated_proofs

\* a verified member with a stored non-zero commitment, for whom the proof hash
\* alone and the commitment alone are presented as zero
C12_Witness ==
    \E u \in Users :
        /\ is_user_verified_in_shadowid(u)
        /\ validated_proofs[u] # Zero32
        /\ ~validate_zk_proof(u, "c1", Zero32).ok
        /\ ~validate_zk_proof(u, Zero32, "h1").ok
        /\ vote_error(u, 1, 0, "c1", Zero32) = "Invalid ZK proof for vote"

\* C13: is_user_verified(user) is the verified flag and the non-zero commitment
\* and proof hash of the member record as stored at the call; once a write has
\* cleared one of the three, is_user_verified is false and the user's
\* create_proposal, vote and execute_proposal calls fail with "KYC required".
C13_VerifiedIsDerived ==
    /\ [](\A u \in Users :
            /\ is_user_verified(u) = RecordVerified(members[u])
            /\ ~RecordVerified(members[u]) =>
                 \A c \in Commitments, h \in Hashes :
                    /\ \A target \in Targets :
                          create_proposal_error(u, target, c, h) = "KYC required"
                    /\ \A i \in ProposalIds :
                          /\ execute_proposal_error(u, i, c, h) = "KYC required"
                          /\ \A ch \in Choices :
                                vote_error(u, i, ch, c, h) = "KYC required")
    /\ [][\A u \in Users :
            (RecordVerified(members[u]) /\ ~RecordVerified(members'[u]))
                => ~is_user_verified(u)']_vars

\* a user who made a gated call with proof hash h1 while verified, and whose
\* record a later register_verified_user left verified with a zero proof hash
C13_Witness ==
    \E u \in Users :
        /\ uses["h1"] >= 1
        /\ result.op = "register_verified_user"
        /\ members[u].verified
        /\ ~IsZero(members[u].kyc_commitment)
        /\ IsZero(members[u].proof_hash)
        /\ ~is_user_verified(u)

\* C14: a cancel_proposal call returns Ok only when the caller is the owner and
\* the proposal's state is Active, and it then stores the state Cancelled and
\* nothing else; a call by another caller or on a proposal in another state
\* returns an error and leaves the proposal as it was.
C14_CancelProposal ==
    /\ [](\A caller \in Callers, i \in ProposalIds :
            (cancel_proposal_error(caller, i) = NoError)
                <=> (caller = Owner /\ proposal_core[i].state = "Active"))
    /\ [][ \/ UNCHANGED <<proposal_core, execution_data>>
           \/ \A caller \in Callers, i \in ProposalIds :
                 cancel_proposal(caller, i) =>
                    /\ caller = Owner
                    /\ proposal_core[i].state = "Active"
                    /\ proposal_core' = [proposal_core EXCEPT ![i].state = "Cancelled"]
                    /\ UNCHANGED execution_data
         ]_vars

\* the owner has cancelled a created proposal; a second cancel_proposal on it,
\* and one by another caller on a created Active proposal, are refused
C14_Witness ==
    /\ result.op = "cancel_proposal"
    /\ \E i \in ProposalIds :
          /\ Created(i)
          /\ proposal_core[i].state = "Cancelled"
          /\ cancel_proposal_error(Owner, i) = "Cannot cancel non-active proposal"
    /\ \E j \in ProposalIds :
          /\ Created(j)
          /\ proposal_core[j].state = "Active"
          /\ cancel_proposal_error(Alice, j) = "Only owner can cancel"

C16_NestedAcquireFails ==
    /\ [](/\ Len(call_stack) <= 1
          /\ treasury.locked <=> call_stack # <<>>
          /\ treasury.locked =>
               \A sender \in Senders, token \in Tokens, to \in Recipients,
                  amount \in EthAmounts :
                  /\ deposit_erc20_error(sender, token, amount)
                        \in {"Pausable: paused", "ReentrancyGuard: reentrant call"}
                  /\ withdraw_erc20_error(sender, token, to, amount)
                        \in {"Ownable: caller is not the owner", "Pausable: paused",
                             "ReentrancyGuard: reentrant call"}
                  /\ withdraw_eth_error(sender, to, amount)
                        \in {"Ownable: caller is not the owner", "Pausable: paused",
                             "ReentrancyGuard: reentrant call"}
                  /\ \A id \in WithdrawalIds :
                        execute_withdrawal_error(sender, id)
                          \in {"Ownable: caller is not the owner", "Pausable: paused",
                               "ReentrancyGuard: reentrant call"})
    /\ [][(t_result' # t_result /\ t_result'.err = "ReentrancyGuard: reentrant call")
            => /\ treasury.locked
               /\ UNCHANGED <<treasury, eth_held, call_stack>>]_vars

\* a deposit_erc20 holds the lock and waits for the token contract, which is
\* the owner and has just called execute_withdrawal: refused as reentrant
C16_Witness ==
    /\ Len(call_stack) = 1
    /\ call_stack[1].op = "deposit_erc20"
    /\ treasury.locked
    /\ treasury.owner = Token
    /\ t_result = Outcome("execute_withdrawal", "ReentrancyGuard: reentrant call", 0)

C21_QueueWithdrawalChecks ==
    /\ [](\A sender \in Senders, recipient \in Recipients, amount \in EthAmounts :
            /\ (recipient = ZeroAddr \/ amount = 0 \/ get_eth_balance < amount)
                  => queue_withdrawal_error(sender, recipient, amount) # NoError
            /\ queued_withdrawal(recipient, amount)
                  = [recipient |-> recipient, amount |-> amount,
                     unlock_time |-> now + treasury.withdrawal_delay,
                     executed |-> FALSE, cancelled |-> FALSE])
    /\ [][\A sender \in Senders, recipient \in Recipients, amount \in EthAmounts :
            queue_withdrawal(sender, recipient, amount) =>
                IF queue_withdrawal_error(sender, recipient, amount) # NoError
                THEN /\ UNCHANGED <<treasury, eth_held>>
                     /\ t_result'.err # NoError
                ELSE /\ t_result' = Outcome("queue_withdrawal", NoError,
                                            treasury.withdrawal_count + 1)
                     /\ treasury'.withdrawal_count = treasury.withdrawal_count + 1
                     /\ treasury'.queued_withdrawals[treasury'.withdrawal_count]
                          = [recipient |-> recipient, amount |-> amount,
                             unlock_time |-> now + treasury.withdrawal_delay,
                             executed |-> FALSE, cancelled |-> FALSE]
         ]_vars

\* the owner of an initialised, unpaused treasury that holds ETH has just been
\* refused a withdrawal for the balance, and would be refused one for the zero
\* recipient and one for amount zero; nothing is queued
C21_Witness ==
    /\ treasury.owner = Owner
    /\ ~treasury.paused
    /\ eth_held >= 1
    /\ call_stack = <<>>
    /\ t_result.op = "queue_withdrawal"
    /\ t_result.err = "Insufficient balance"
    /\ queue_withdrawal_error(Owner, ZeroAddr, 1) = "Invalid recipient"
    /\ queue_withdrawal_error(Owner, Alice, 0) = "Amount must be greater than 0"
    /\ treasury.withdrawal_count = 0
    /\ \A id \in WithdrawalIds : treasury.queued_withdrawals[id] = DefaultQueuedWithdrawal

\* C22: once init has set an owner, withdrawal_delay lies between
\* MIN_WITHDRAWAL_DELAY (1 hour) and MAX_WITHDRAWAL_DELAY (30 days) in every
\* state, and no call by an account other than the owner changes it: neither
\* set_withdrawal_delay nor init, made by such an account, can end with another
\* delay than the one stored.
C22_OnlyOwnerChangesDelay ==
    /\ treasury.owner # ZeroAddr =>
          /\ treasury.withdrawal_delay >= MIN_WITHDRAWAL_DELAY
          /\ treasury.withdrawal_delay <= MAX_WITHDRAWAL_DELAY
    /\ \A sender \in Senders, initial_owner \in InitialOwners, delay \in Delays :
          (treasury.owner # ZeroAddr /\ sender # treasury.owner) =>
              ~ENABLED (/\ \/ init(sender, initial_owner)
                           \/ set_withdrawal_delay(sender, delay)
                        /\ treasury'.withdrawal_delay # treasury.withdrawal_delay)

\* The part of C22 that is about set_withdrawal_delay alone: with an owner
\* set, withdrawal_delay lies between MIN_WITHDRAWAL_DELAY and
\* MAX_WITHDRAWAL_DELAY in every state; a set_withdrawal_delay call by an
\* account other than the owner, or with a value outside that range, returns
\* an error and leaves the delay as it was, and one by the owner with a value
\* inside it stores that value.
C22_DelayWithinLimits ==
    /\ [](/\ treasury.owner # ZeroAddr =>
                /\ treasury.withdrawal_delay >= MIN_WITHDRAWAL_DELAY
                /\ treasury.withdrawal_delay <= MAX_WITHDRAWAL_DELAY
          /\ \A sender \in Senders, delay \in Delays :
                (set_withdrawal_delay_error(sender, delay) = NoError)
                    <=> /\ sender = treasury.owner
                        /\ delay >= ONE_HOUR
                        /\ delay <= 30 * ONE_DAY)
    /\ [][\A sender \in Senders, delay \in Delays :
            set_withdrawal_delay(sender, delay) =>
                IF sender = treasury.owner /\ delay >= ONE_HOUR /\ delay <= 30 * ONE_DAY
                THEN treasury' = [treasury EXCEPT !.withdrawal_delay = delay]
                ELSE UNCHANGED treasury /\ t_result'.err # NoError
         ]_vars

\* the owner has set the delay to the upper limit; one second more, one second
\* under the lower limit, and another caller are refused
C22_DelayWithinLimits_Witness ==
    /\ treasury.owner = Owner
    /\ call_stack = <<>>
    /\ t_result = Outcome("set_withdrawal_delay", NoError, 0)
    /\ treasury.withdrawal_delay = MAX_WITHDRAWAL_DELAY
    /\ set_withdrawal_delay_error(Owner, MAX_WITHDRAWAL_DELAY + 1) = "Invalid delay"
    /\ set_withdrawal_delay_error(Owner, MIN_WITHDRAWAL_DELAY - 1) = "Invalid delay"
    /\ set_withdrawal_delay_error(Alice, MIN_WITHDRAWAL_DELAY)
          = "Ownable: caller is not the owner"

\* C29: a validate_zk_proof call that succeeds stores the commitment and the
\* proof hash presented in the member's record, sets its
\* verification_timestamp to now and records the commitment in
\* validated_proofs[user]; it leaves verified, is_member and verification_type
\* of that member, and every other member's record and validated commitment,
\* as they were, writes no other storage (none that marks a proof hash as
\* used), and so accepts the same proof hash again; every successful vote,
\* create_proposal and execute_proposal leaves the caller's record so.
C29_ValidateFrame ==
    /\ [](\A user \in DOMAIN members, commitment \in Commitments, proof_hash \in Hashes :
            LET v == validate_zk_proof(user, commitment, proof_hash)
            IN  /\ DOMAIN v = {"ok", "members", "validated_proofs"}
                /\ v.ok <=> (commitment # Zero32 /\ proof_hash # Zero32)
                /\ v.ok =>
                    /\ v.members[user].kyc_commitment = commitment
                    /\ v.members[user].proof_hash = proof_hash
                    /\ v.members[user].verification_timestamp = now
                    /\ v.validated_proofs[user] = commitment
                    /\ v.members[user].verified = members[user].verified
                    /\ v.members[user].is_member = members[user].is_member
                    /\ v.members[user].verification_type = members[user].verification_type
                    /\ \A other \in DOMAIN members \ {user} :
                          /\ v.members[other] = members[other]
                          /\ v.validated_proofs[other] = validated_proofs[other]
                    /\ members[user].proof_hash = proof_hash => v.ok)
    /\ [][\/ result' = result
          \/ result'.op \notin {"vote", "create_proposal", "execute_proposal"}
          \/ \A user \in DOMAIN members :
                /\ members'[user].verified = members[user].verified
                /\ members'[user].is_member = members[user].is_member
                /\ members'[user].verification_type = members[user].verification_type
                /\ members'[user] # members[user] =>
                      /\ members'[user].verification_timestamp = now
                      /\ members'[user].kyc_commitment # Zero32
                      /\ members'[user].proof_hash # Zero32
                      /\ validated_proofs'[user] = members'[user].kyc_commitment
         ]_vars

\* a verified member has just voted at a time after her registration: the
\* record carries the proof presented and the time of the vote, and the
\* commitment is her last validated one
C29_Witness ==
    /\ result.op = "vote"
    /\ now > 0
    /\ members[Alice].verified
    /\ members[Alice].verification_type = 2
    /\ members[Alice].kyc_commitment = "c1"
    /\ members[Alice].proof_hash = "h1"
    /\ members[Alice].verification_timestamp = now
    /\ validated_proofs[Alice] = "c1"
    /\ validate_zk_proof(Alice, "c1", "h1").ok

\* C30: vote returns Ok only on a proposal whose state is Active and while
\* now <= end_time, and finalize_proposal only when now > end_time, so no state
\* lets both succeed on the same proposal; and a proposal whose state is not
\* Active keeps its for_votes, against_votes and abstain_votes in every step
\* and, once created, never becomes Active again.
C30_NoVoteAfterFinalize ==
    /\ [](\A proposal_id \in ProposalIds :
            /\ \A voter \in Users, choice \in Choices,
                  kyc_commitment \in Commitments, proof_hash \in Hashes :
                  vote_error(voter, proposal_id, choice, kyc_commitment, proof_hash)
                        = NoError
                    => /\ proposal_core[proposal_id].state = "Active"
                       /\ now <= proposal_core[proposal_id].end_time
                       /\ finalize_proposal_error(proposal_id) # NoError
            /\ finalize_proposal_error(proposal_id) = NoError
                  => now > proposal_core[proposal_id].end_time)
    /\ [][\/ UNCHANGED proposal_core
          \/ \A proposal_id \in ProposalIds :
                proposal_core[proposal_id].state # "Active"
                    => /\ Tallies(proposal_core'[proposal_id])
                            = Tallies(proposal_core[proposal_id])
                       /\ Created(proposal_id)
                            => proposal_core'[proposal_id].state # "Active"
         ]_vars

\* a proposal that received a vote has just been finalized, after its end_time
C30_Witness ==
    \E proposal_id \in ProposalIds :
        /\ Created(proposal_id)
        /\ proposal_core[proposal_id].state \in {"Passed", "Rejected"}
        /\ proposal_core[proposal_id].for_votes + proposal_core[proposal_id].against_votes
              + proposal_core[proposal_id].abstain_votes > 0
        /\ now > proposal_core[proposal_id].end_time
        /\ result.op = "finalize_proposal"

\* C28: whatever verification policy is configured, check_verification_policy
\* accepts input flags exactly when every bit set in the policy is set in the
\* flags (policy AND NOT flags = 0), for every flags value up to MaxFlags;
\* bits set in the flags beyond the policy never cause rejection.
C28_PolicyIsBitwiseImplication ==
    \A flags \in 0 .. MaxFlags :
        check_verification_policy([policy_flags |-> FieldElement(flags)],
                                  verification_policy)
            <=> \A bit \in {1, 2, 4, 8, 16, 32, 64, 128} :
                    BitAnd(verification_policy, bit) # 0 => BitAnd(flags, bit) # 0

\* the timepoints get_past_votes is asked about: the block timestamps and
\* the seconds around them
Timepoints == TokenTimes \cup {0, MINT_COOLDOWN, MINT_COOLDOWN + 2}

\* get_votes and get_past_votes read off a given storage
VotesOf(t, account) == _get_current_votes(t.checkpoints[account])
PastVotesOf(t, account, timepoint) ==
    _binary_search_checkpoints(t.checkpoints[account], timepoint)

\* C23: in every state each account's checkpoints have strictly increasing
\* timestamps, none later than now; a checkpoint write at now appends an
\* entry, unless the last entry has timestamp now, and then it replaces that
\* entry's votes and the sequence keeps its length.
C23_CheckpointsStrictlyIncreasing ==
    \A account \in TokenAccounts :
        LET checkpoints == governance_token.checkpoints[account]
            len == Len(checkpoints)
        IN  /\ \A i \in 1 .. len - 1 :
                  checkpoints[i].from_block < checkpoints[i + 1].from_block
            /\ \A i \in 1 .. len : checkpoints[i].from_block <= now
            /\ \A votes \in 0 .. MaxTokens :
                  LET written == _write_checkpoint(checkpoints, votes)
                  IN  IF len > 0 /\ checkpoints[len].from_block = now
                      THEN /\ Len(written) = len
                           /\ written[len] = [from_block |-> now, votes |-> votes]
                           /\ SubSeq(written, 1, len - 1) = SubSeq(checkpoints, 1, len - 1)
                      ELSE /\ Len(written) = len + 1
                           /\ written[len + 1] = [from_block |-> now, votes |-> votes]
                           /\ SubSeq(written, 1, len) = checkpoints

\* an account's votes went to 0 in block 1 and to 2 in block 2: each call
\* moves at most one unit, so the entry of block 2 was written twice and the
\* entry of block 1 at least twice, and the sequence has one entry per block
C23_Witness ==
    /\ now = 2
    /\ \E account \in TokenAccounts :
          governance_token.checkpoints[account]
              = <<[from_block |-> 1, votes |-> 0], [from_block |-> 2, votes |-> 2]>>

\* C24: get_past_votes(account, t) returns Err when t >= now; otherwise it
\* returns the votes of the checkpoint with the greatest timestamp <= t among
\* the account's checkpoints, and 0 when no checkpoint has a timestamp <= t.
C24_PastVotesLookup ==
    \A account \in TokenAccounts, timepoint \in Timepoints :
        LET checkpoints == governance_token.checkpoints[account]
            hits == {i \in 1 .. Len(checkpoints) : checkpoints[i].from_block <= timepoint}
            past == get_past_votes(account, timepoint)
        IN  /\ past.err # NoError <=> timepoint >= now
            /\ timepoint < now =>
                  IF hits = {} THEN past.ret = 0
                  ELSE \E i \in hits :
                          /\ \A j \in hits :
                                checkpoints[j].from_block <= checkpoints[i].from_block
                          /\ past.ret = checkpoints[i].votes

\* an account has three checkpoints with different votes; the lookups at and
\* between their timestamps return the first and the second, the lookup before
\* the first returns 0, and the lookup at now is refused
C24_Witness ==
    /\ now = MINT_COOLDOWN + 1
    /\ \E account \in TokenAccounts :
          /\ Len(governance_token.checkpoints[account]) = 3
          /\ get_past_votes(account, 0) = [err |-> NoError, ret |-> 0]
          /\ get_past_votes(account, 1) = [err |-> NoError, ret |-> 1]
          /\ get_past_votes(account, 2) = [err |-> NoError, ret |-> 2]
          /\ get_past_votes(account, MINT_COOLDOWN) = [err |-> NoError, ret |-> 2]
          /\ get_past_votes(account, now).err = "Timepoint must be in the past"
          /\ get_votes(account) = 1

\* C25: for every account and every timepoint t < now, no step (init, mint,
\* burn, transfer, delegate, set_auto_delegation, or a later block) changes
\* what get_past_votes(account, t) returns; and now never decreases, so the
\* timepoint stays answerable.
C25_PastVotesNeverChange ==
    [][\/ UNCHANGED <<governance_token, now>>
       \/ /\ now' >= now
          /\ \A account \in TokenAccounts, timepoint \in Timepoints :
                timepoint < now =>
                    PastVotesOf(governance_token', account, timepoint)
                        = PastVotesOf(governance_token, account, timepoint)
      ]_vars

\* an account held 1 vote at timepoint 1, holds 2 now in a later block, and
\* the lookup at timepoint 1 still returns 1
C25_Witness ==
    /\ now = 2
    /\ \E account \in TokenAccounts :
          /\ governance_token.checkpoints[account]
                = <<[from_block |-> 1, votes |-> 1], [from_block |-> 2, votes |-> 2]>>
          /\ get_past_votes(account, 1) = [err |-> NoError, ret |-> 1]
          /\ get_votes(account) = 2

\* C26: a delegate call that succeeds sets the caller's delegate to the
\* delegatee and changes no other delegate and no balance; when the old
\* delegate is the delegatee, or the caller's balance is zero, it writes no
\* checkpoint; otherwise the delegatee's votes grow by the caller's balance,
\* the old delegate's votes (when there is an old delegate) shrink by it
\* without going below zero, and no other account's checkpoints change.
C26_DelegateMovesBalance ==
    [][\/ UNCHANGED governance_token
       \/ \A sender \in TokenAccounts, delegatee \in TokenAccounts :
            delegate(sender, delegatee) =>
                LET t == governance_token
                    old == t.delegates_mapping[sender]
                    balance == t.balances[sender]
                IN  /\ governance_token'.delegates_mapping
                          = [t.delegates_mapping EXCEPT ![sender] = delegatee]
                    /\ governance_token'.balances = t.balances
                    /\ governance_token'.total_supply = t.total_supply
                    /\ IF old = delegatee \/ balance = 0
                       THEN governance_token'.checkpoints = t.checkpoints
                       ELSE /\ VotesOf(governance_token', delegatee)
                                  = VotesOf(t, delegatee) + balance
                            /\ old # ZeroAddr =>
                                  /\ VotesOf(governance_token', old)
                                        = VotesOf(t, old) - balance
                                  /\ VotesOf(governance_token', old) >= 0
                            /\ \A other \in TokenAccounts \ {old, delegatee} :
                                  governance_token'.checkpoints[other]
                                      = t.checkpoints[other]
      ]_vars

\* Alice holds 1 unit and the owner 1; Alice, who had the vote of her own
\* unit, has delegated to the owner in this block: the owner has 2 votes and
\* Alice none
C26_Witness ==
    /\ governance_token.balances = [a \in TokenAccounts |-> 1]
    /\ governance_token.delegates_mapping = [a \in TokenAccounts |-> Owner]
    /\ get_votes(Owner) = 2
    /\ get_votes(Alice) = 0
    /\ Len(governance_token.checkpoints[Alice]) >= 1
    /\ governance_token.checkpoints[Alice][Len(governance_token.checkpoints[Alice])].from_block
          = now
    /\ PastVotesOf(governance_token, Alice, now - 1) = 1

\* C27: the weight a successful vote stores in the VoteRecord and adds to the
\* chosen tally is get_votes(voter), the voter's current voting power in the
\* GovernanceToken, at the time of the call.
C27_WeightIsVotingPower ==
    [][\/ UNCHANGED <<user_votes, proposal_core>>
       \/ \A voter \in Users, proposal_id \in ProposalIds, choice \in Choices,
             kyc_commitment \in Commitments, proof_hash \in Hashes :
             (/\ vote(voter, proposal_id, choice, kyc_commitment, proof_hash)
              /\ vote_error(voter, proposal_id, choice, kyc_commitment, proof_hash)
                    = NoError)
                => /\ user_votes'[<<proposal_id, voter>>].weight = get_votes(voter)
                   /\ Tallies(proposal_core'[proposal_id])[choice + 1]
                         = Tallies(proposal_core[proposal_id])[choice + 1]
                              + get_votes(voter)
      ]_vars

\* the fields create_proposal fixes: of ProposalCore and of ExecutionData
IdentityFields(core) ==
    <<core.id, core.proposer, core.title, core.description, core.start_time,
      core.end_time, core.kyc_commitment, core.proof_hash>>
ExecutionPayload(execution) == <<execution.target, execution.value, execution.data>>

\* C31: vote, finalize_proposal, execute_proposal and cancel_proposal leave
\* id, proposer, title, description, start_time, end_time, kyc_commitment and
\* proof_hash of every proposal, and target, value and data of its execution
\* data, as they were; a vote changes, in the proposal records, only the tally
\* its choice selects, of the proposal voted on; finalize_proposal and
\* cancel_proposal change only the state of their proposal; execute_proposal
\* only its state and the executed flag.
C31_IdentityFieldsImmutable ==
    [][\/ UNCHANGED <<proposal_core, execution_data>>
       \/ \A proposal_id \in ProposalIds :
            LET core == proposal_core[proposal_id]
                others == \A other \in ProposalIds \ {proposal_id} :
                              /\ proposal_core'[other] = proposal_core[other]
                              /\ execution_data'[other] = execution_data[other]
            IN  /\ \A voter \in Users, choice \in Choices,
                      kyc_commitment \in Commitments, proof_hash \in Hashes :
                      vote(voter, proposal_id, choice, kyc_commitment, proof_hash) =>
                          /\ others
                          /\ UNCHANGED execution_data
                          /\ \/ proposal_core'[proposal_id] =
                                  [core EXCEPT !.for_votes = proposal_core'[proposal_id].for_votes]
                                /\ choice = 0
                             \/ proposal_core'[proposal_id] =
                                  [core EXCEPT !.against_votes =
                                      proposal_core'[proposal_id].against_votes]
                                /\ choice = 1
                             \/ proposal_core'[proposal_id] =
                                  [core EXCEPT !.abstain_votes =
                                      proposal_core'[proposal_id].abstain_votes]
                                /\ choice = 2
                /\ (\/ finalize_proposal(proposal_id)
                    \/ \E caller \in Callers : cancel_proposal(caller, proposal_id)) =>
                      /\ others
                      /\ UNCHANGED execution_data
                      /\ proposal_core'[proposal_id] =
                            [core EXCEPT !.state = proposal_core'[proposal_id].state]
                /\ \A executor \in Users, kyc_commitment \in Commitments,
                      proof_hash \in Hashes :
                      execute_proposal(executor, proposal_id, kyc_commitment, proof_hash) =>
                          /\ others
                          /\ proposal_core'[proposal_id] =
                                [core EXCEPT !.state = proposal_core'[proposal_id].state]
                          /\ execution_data'[proposal_id] =
                                [execution_data[proposal_id] EXCEPT !.executed = TRUE]
                          /\ IdentityFields(proposal_core'[proposal_id]) = IdentityFields(core)
                          /\ ExecutionPayload(execution_data'[proposal_id])
                                = ExecutionPayload(execution_data[proposal_id])
      ]_vars

\* a proposal that was voted on, finalized and has just been executed still
\* carries the id, proposer, times and proof it was created with, and its
\* target
C31_Witness ==
    \E proposal_id \in ProposalIds :
        /\ result.op = "execute_proposal"
        /\ proposal_core[proposal_id].state = "Executed"
        /\ execution_data[proposal_id].executed
        /\ user_votes[<<proposal_id, Alice>>].has_voted
        /\ IdentityFields(proposal_core[proposal_id])
              = <<proposal_id, Crowd, "t", "d", 1, 1 + VotingPeriod, CrowdBytes, CrowdBytes>>
        /\ ExecutionPayload(execution_data[proposal_id]) = <<Treasury, 0, <<>>>>

\* the sum of the weights of the stored VoteRecords of the given voters on a
\* proposal that carry the given choice
RECURSIVE recorded_weight(_, _, _)
recorded_weight(voters, proposal_id, choice) ==
    IF voters = {} THEN 0
    ELSE LET voter == CHOOSE v \in voters : TRUE
             vote_record == user_votes[<<proposal_id, voter>>]
         IN  (IF vote_record.has_voted /\ vote_record.choice = choice
              THEN vote_record.weight ELSE 0)
             + recorded_weight(voters \ {voter}, proposal_id, choice)

\* what the stored records of Users leave of the tallies of a proposal: the
\* votes of the accounts outside Users
unrecorded_tallies(proposal_id) ==
    <<proposal_core[proposal_id].for_votes - recorded_weight(Users, proposal_id, 0),
      proposal_core[proposal_id].against_votes - recorded_weight(Users, proposal_id, 1),
      proposal_core[proposal_id].abstain_votes - recorded_weight(Users, proposal_id, 2)>>

C35_NoRecordBeforeCreation ==
    \A proposal_id \in ProposalIds :
        ~Created(proposal_id) =>
            /\ proposal_core[proposal_id] = DefaultProposalCore
            /\ execution_data[proposal_id] = DefaultExecutionData
            /\ \A voter \in Users : user_votes[<<proposal_id, voter>>] = DefaultVoteRecord

\* C36: execute_proposal never succeeds before the time the proposal became
\* Passed plus execution_delay.  A proposal becomes Passed in finalize_proposal,
\* which needs a timestamp after end_time; so no proposal becomes Executed at a
\* time before end_time + 1 + execution_delay.
C36_ExecutionWaitsForDelay ==
    [][\/ UNCHANGED proposal_core
       \/ \A proposal_id \in ProposalIds :
            (/\ proposal_core[proposal_id].state = "Passed"
             /\ proposal_core'[proposal_id].state = "Executed") =>
                now >= proposal_core[proposal_id].end_time + 1 + ExecutionDelay
      ]_vars

\* C37: the cancelled flag get_proposal reports is true exactly for a proposal
\* whose state is Cancelled: no step leads from a state where the flag of every
\* created proposal matches its state to one where it does not.
C37_CancelledFlagMatchesState ==
    [][\/ UNCHANGED <<proposal_core, proposal_count>>
       \/ (\A proposal_id \in ProposalIds :
              Created(proposal_id) =>
                 (proposal_core[proposal_id].cancelled
                     <=> proposal_core[proposal_id].state = "Cancelled"))
          => (\A proposal_id \in ProposalIds :
                 Created(proposal_id)' =>
                    (proposal_core'[proposal_id].cancelled
                        <=> proposal_core'[proposal_id].state = "Cancelled"))
      ]_vars

C39_OwnerChangesOnlyByTransfer ==
    [][(treasury.owner # ZeroAddr /\ treasury'.owner # treasury.owner) =>
            \E new_owner \in InitialOwners \cup TreasuryCallers :
                transfer_ownership(treasury.owner, new_owner)
      ]_vars

DelegatedBalance(delegatee) ==
    (IF delegates(Owner) = delegatee THEN governance_token.balances[Owner] ELSE 0)
    + (IF delegates(Alice) = delegatee THEN governance_token.balances[Alice] ELSE 0)

\* C33: voting power is conserved: for every account d, get_votes(d) is the sum
\* of the balances of the accounts whose current delegate is d, and the votes
\* of all accounts together never exceed total_supply.
C33_VotingPowerConserved ==
    /\ \A d \in TokenAccounts : get_votes(d) = DelegatedBalance(d)
    /\ get_votes(Owner) + get_votes(Alice) <= governance_token.total_supply

\* The first half of C33 alone: get_votes(d) is the sum of the balances
\* delegated to d, so no subtraction in _move_voting_power goes below zero.
C33_VotesAreDelegatedBalances ==
    /\ \A d \in TokenAccounts : get_votes(d) = DelegatedBalance(d)
    /\ \A d \in TokenAccounts :
          \A k \in 1 .. Len(governance_token.checkpoints[d]) :
              governance_token.checkpoints[d][k].votes >= 0

\* an account holds a token and has delegated it to the other account, which
\* holds one of its own and votes with both
C33_VotesAreDelegatedBalances_Witness ==
    /\ delegates(Alice) = Owner
    /\ delegates(Owner) = Owner
    /\ governance_token.balances[Alice] = 1
    /\ governance_token.balances[Owner] = 1
    /\ get_votes(Owner) = 2

\* C32: create_zk_proposal, called by a creator who holds the required proof
\* type, creates a base proposal, returns its id and records the required
\* proof type under that id.
C32_CreateZkProposalCreates ==
    [][\/ zk_result' = zk_result
       \/ \A creator \in Users, required_proof_type \in CircuitTypes :
            (/\ zk_dao.member_zk_proofs[creator][required_proof_type]
             /\ create_zk_proposal(creator, "t", "d", required_proof_type)) =>
                /\ zk_result'.err = NoError
                /\ zk_result'.id = proposal_count
                /\ proposal_count' = proposal_count + 1
                /\ proposal_core'[proposal_count].id = proposal_count
                /\ proposal_core'[proposal_count].proposer = creator
                /\ zk_dao'.proposal_zk_requirements[proposal_count] = required_proof_type
      ]_vars

\* What the code does instead of C32: every create_zk_proposal call returns an
\* error, "KYC required" or "Invalid ZK proof or commitment" for a creator who
\* holds the required proof type, and no requirement is ever recorded.
C32_CreateZkProposalAlwaysFails ==
    /\ zk_result.op = "create_zk_proposal" =>
          zk_result.err \in {"Creator must have required ZK proof", "KYC required",
                             "Invalid ZK proof or commitment"}
    /\ \A proposal_id \in ProposalIds : zk_dao.proposal_zk_requirements[proposal_id] = ""

\* a creator holding the proof type, verified in the DAO, was just refused
C32_CreateZkProposalAlwaysFails_Witness ==
    /\ zk_result.op = "create_zk_proposal"
    /\ zk_result.err = "Invalid ZK proof or commitment"
    /\ zk_dao.member_zk_proofs[Alice]["age_proof"]
    /\ is_user_verified(Alice)

============================================================================
